---- MODULE Spec2Model ----
(***************************************************************************)
(* Verification model of the seesaw load-balancer core (Rust crates vrrp,  *)
(* healthcheck and healthcheck-server).                                    *)
(*                                                                         *)
(* Part I   VRRP node: VRRPNode::run (init_transition, run_backup,         *)
(*          run_master), the advertisement handlers and shutdown().        *)
(* Part II  Health-check engine: HealthCheckStats::update,                 *)
(*          HealthCheckMonitor (probing task, process_result) and the      *)
(*          Manager (update_configs, monitor_task poller).                 *)
(*                                                                         *)
(* Every await point of the async code is a step of its task; the tasks    *)
(* interleave at those points.  Time is a clock in milliseconds.           *)
(***************************************************************************)
EXTENDS Integers, Sequences, FiniteSets, TLC

(***************************************************************************)
(* Bounds of the model                                                     *)
(***************************************************************************)
\* The clock stops at MaxTime milliseconds.
MaxTime == 4000
\* One step of the clock, in milliseconds.
TickMs == 1000
\* Datagrams the network delivers to the VRRP socket in one run.
MaxPackets == 1
\* Probes a monitor used on its own completes in one run.
MaxChecks == 6
\* The largest rise and fall threshold of a monitor used on its own.
MaxThreshold == 3
\* Probes the monitors of a manager complete in one run, over all of them.
ManagedChecks == 2
\* Configuration lists the control agent sends in one run.
MaxUpdates == 3
\* Calls of start() and stop() the owner of a monitor makes in one run.
MaxCalls == 3
\* Probes the tasks of a monitor complete in a run with such calls.
OwnerChecks == 2
\* Notifications the poller puts on the notification channel in a run of the
\* notifier.
MaxNotifications == 4
\* The largest batch_size of a notifier.
MaxBatch == 3
\* batch_delay, in units of the notifier's clock.
BatchDelay == 2
\* How late, in the same units, the notifier handles a tick of its timer.
MaxLate == 2
\* channels.proxy_message of the configuration.
FromProxyCap == 1
\* Lines the control agent sends on its connection.
MaxLines == 2
\* Probes the monitors of the whole server may run.
ServerChecks == 1
\* channels.config_update of the configuration.
ConfigCap == 1
\* channels.notification of the configuration.
NotifyCap == 2

(***************************************************************************)
(* Part I - VRRP                                                           *)
(***************************************************************************)

\* vrrp/src/types.rs: DEFAULT_ADVERT_INTERVAL, in centiseconds
DEFAULT_ADVERT_INTERVAL == 100
\* The protocol version, packet type and IP protocol number of VRRP
VRRP_VERSION == 3
VRRP_TYPE_ADVERTISEMENT == 1
VRRP_PROTOCOL == 112
\* state_machine.rs run(): sleep(Duration::from_secs(1)) in the Init arm, in ms
InitSleepMs == 1000

VARIABLES
    config,        \* VRRPNode.config: [vrid, priority, advert_interval, preempt]
    state,         \* VRRPNode.state: "Init" | "Backup" | "Master"
    stats,         \* VRRPNode.stats: VRRPStats
    pc,            \* position of the task executing run()
    ret,           \* where transition_to_backup returns to
    deadline,      \* run_backup: let deadline
    deadline_arg,  \* the temporary `deadline.clone()` lent to handle_advertisement_backup
    packet,        \* the (packet, src_ip) try_recv returned, NoPacket when none is held
    advert_timer,  \* run_master: next instant advert_timer fires
    sleep_until,   \* run(): wake-up instant of the sleep in the Init arm
    spc,           \* position of the caller of shutdown()
    now,           \* Instant::now(), ms
    delivered,     \* datagrams the socket has handed to try_recv so far
    peer           \* TRUE when a peer sends on the segment, FALSE on a silent one

vrrpVars == <<config, state, stats, pc, ret, deadline, deadline_arg, packet,
              advert_timer, sleep_until, spc, now, delivered, peer>>

VARIABLES
    mon,           \* every HealthCheckMonitor created so far (the Arc-shared state)
    monitors,      \* Manager.monitors: id -> MonitorState, NoEntry when absent
    config_rx,     \* the channel of configuration lists to the manager
    updates_left,  \* configuration lists the proxy may still send
    new_ids,       \* update_configs: the ids of the list being applied
    api_calls,     \* start() and stop() calls made on a monitor used on its own
    mgr_pc,        \* position of the task executing Manager::run
    mgr_cfgs,      \* update_configs: the configs not yet applied
    monitor_count, \* the gauge update_monitor_count sets
    poll_pc,       \* position of the task executing Manager::monitor_task
    poll_last,     \* monitor_task: the last key monitors.iter() yielded
    poll_cur,      \* monitor_task: the snapshot under construction
    snapshots,     \* monitor_task: let snapshots
    notify_q,      \* the channel of Notifications to the notifier
    checks_left    \* probes the run still has room for, over all monitors

\* The poller's gauge update and the check observations it records
VARIABLES
    poll_len,      \* monitor_task: the monitors.len() read for the gauge
    observed       \* id -> the record_check_with_id calls made for it so far

pollVars == <<poll_len, observed>>

\* The IPVS netlink attributes (ipvs/src/messages.rs), applied to values of
\* their own
VARIABLES
    nl_host,       \* the byte order of the host: "little" or "big"
    nl_service,    \* a Service
    nl_dest,       \* a Destination
    nl_nlas,       \* the result of to_service_nlas
    nl_dest_nlas,  \* the result of to_dest_nlas
    nl_bytes,      \* kind and emitted value of each service attribute
    nl_dest_bytes, \* kind and emitted value of each destination attribute
    nl_parsed,     \* the result of ServiceNla::parse on each of nl_bytes
    nl_pc          \* the last function applied

nlVars == <<nl_host, nl_service, nl_dest, nl_nlas, nl_dest_nlas, nl_bytes,
           nl_dest_bytes, nl_parsed, nl_pc>>

\* No attribute code in use
NlaIdle ==
    /\ nl_host = "little"
    /\ nl_service = [kind |-> "none"]
    /\ nl_dest = [kind |-> "none"]
    /\ nl_nlas = <<>>
    /\ nl_dest_nlas = <<>>
    /\ nl_bytes = <<>>
    /\ nl_dest_bytes = <<>>
    /\ nl_parsed = <<>>
    /\ nl_pc = "idle"

\* The notifier and the proxy endpoint
VARIABLES
    produced,            \* notifications put on the notification channel so far
    batch_size,          \* Notifier.batch_size
    ntf_pc,              \* where Notifier::run is
    batch,               \* run: the pending batch
    batch_age,           \* time the batch has been non-empty
    ticks_skipped,       \* ticks that came due in that time and flushed nothing
    batch_timer,         \* run: time until the next tick of batch_timer is due
    last_batch_elapsed,  \* run: last_batch_time.elapsed()
    to_proxy,            \* the channel to_proxy_tx / to_proxy_rx
    proxy_pc,            \* where ProxyComm::run is
    written              \* the lines written to the proxy socket

ntfVars == <<produced, batch_size, ntf_pc, batch, batch_age, ticks_skipped, batch_timer, last_batch_elapsed,
             to_proxy, proxy_pc, written>>

\* The inbound half of the proxy connection
VARIABLES
    agent_out,     \* the bytes the control agent has still to send
    sock_in,       \* the bytes sent and not yet read from the socket
    line,          \* handle_connection: what the pending read_line has gathered
    proxy_msg,     \* handle_connection: the decoded message being forwarded
    from_proxy,    \* the channel from_proxy_tx / from_proxy_rx
    hpm_pc,        \* where Server::handle_proxy_messages is
    hpm_msg,       \* handle_proxy_messages: the message being handled
    agent_sent,    \* the bytes the control agent has sent so far
    forwarded      \* the messages from_proxy_tx.send has accepted, in order

inVars == <<agent_out, agent_sent, sock_in, line, proxy_msg, from_proxy, hpm_pc,
           hpm_msg, forwarded>>

\* The packet codec and the timer arithmetic, applied to values of their own
VARIABLES
    pk,            \* a VRRPPacket
    pk_ips,        \* the source and destination address of its datagram
    pk_sum,        \* what was done to its checksum: "unset", "set", "altered"
    pk_bytes,      \* the result of to_bytes
    pk_parsed,     \* the result of parse
    pk_valid,      \* the result of verify_checksum
    pk_pc,         \* the last function applied
    intervals,     \* the results of master_down_interval and advert_interval_ms
    ipvs_args,     \* the Service and the Destination given to the IPVSManager
    ipvs_calls     \* the operations called on the IPVSManager, with their results

ipvsVars == <<ipvs_args, ipvs_calls>>

pureVars == <<pk, pk_ips, pk_sum, pk_bytes, pk_parsed, pk_valid, pk_pc, intervals,
             ipvsVars>>

hcVars == <<nlVars, pollVars, pureVars, inVars, ntfVars, mon, monitors, config_rx, updates_left, mgr_pc, mgr_cfgs, new_ids, api_calls,
            monitor_count, poll_pc, poll_last, poll_cur, snapshots, notify_q,
            checks_left>>

vars == <<vrrpVars, hcVars>>

NoPacket == [kind |-> "none"]
\* "no instant": the value of a timer local that is not in scope
NoTime == 0 - 1

\* VRRPNode.primary_ip and the source addresses peers use: [fam, val]
primary_ip == [fam |-> 4, val |-> 2]
SourceIps == {[fam |-> 4, val |-> 1], [fam |-> 4, val |-> 2],
              [fam |-> 4, val |-> 3], [fam |-> 6, val |-> 3]}

\* Configurations a node is started with.
Configs == [vrid : {1}, priority : {100, 255},
            advert_interval : {DEFAULT_ADVERT_INTERVAL}, preempt : BOOLEAN]

\* Datagrams the socket can hold: one that does not parse, and parsed
\* advertisements with the result verify_checksum will give for them and the
\* TTL (hop limit) of the IP header they came in: one of another virtual
\* router, two with a bad checksum, valid ones of every priority class from
\* every source, and valid ones that have crossed a router.
Datagrams ==
    {[kind |-> "malformed"]} \cup
    [kind : {"advert"}, vrid : {2}, priority : {100},
     cksum_ok : {TRUE}, src_ip : {[fam |-> 4, val |-> 3]}, ttl : {255}] \cup
    [kind : {"advert"}, vrid : {1}, priority : {0, 255},
     cksum_ok : {FALSE}, src_ip : {[fam |-> 4, val |-> 3]}, ttl : {255}] \cup
    [kind : {"advert"}, vrid : {1}, priority : {0, 50, 100, 255},
     cksum_ok : {TRUE}, src_ip : SourceIps, ttl : {255}] \cup
    [kind : {"advert"}, vrid : {1}, priority : {0, 255},
     cksum_ok : {TRUE}, src_ip : {[fam |-> 4, val |-> 3]}, ttl : {254}]

\* VRRPConfig::master_down_interval as it would be if it computed the skew in
\* centiseconds and converted the sum (a faulty variant, used to test C25)
master_down_interval_cs(c) ==
    (3 * c.advert_interval + ((256 - c.priority) * c.advert_interval) \div 256) * 10

\* VRRPConfig::master_down_interval, in ms
master_down_interval(c) ==
    LET advert_ms == c.advert_interval * 10
        skew_ms == ((256 - c.priority) * advert_ms) \div 256
    IN (3 * advert_ms) + skew_ms

\* VRRPConfig::advert_interval_ms / run_master's advert_interval, in ms
advert_interval_ms(c) == c.advert_interval * 10

\* VRRPStats::default()
VRRPStatsDefault ==
    [master_transitions |-> 0, backup_transitions |-> 0, adverts_sent |-> 0,
     adverts_received |-> 0, invalid_adverts |-> 0,
     priority_zero_received |-> 0, checksum_errors |-> 0]

\* VRRPNode::new
InitVrrp ==
    /\ config \in Configs
    /\ state = "Init"
    /\ stats = VRRPStatsDefault
    /\ pc = "start"
    /\ ret = "none"
    /\ deadline = NoTime
    /\ deadline_arg = NoTime
    /\ packet = NoPacket
    /\ advert_timer = NoTime
    /\ sleep_until = NoTime
    /\ spc = "idle"
    /\ now = 0
    /\ delivered = 0
    /\ peer \in BOOLEAN

(***************************************************************************)
(* Part II - health-check engine: data                                     *)
(***************************************************************************)

\* HealthcheckId values in use
Ids == {1, 2}
\* HealthStatus, the status of a HealthCheckResult
Statuses == {"Healthy", "Unhealthy", "Error", "Timeout"}

\* The map has no entry under a key / create_monitor returned None /
\* no snapshot is under construction
NoEntry == [present |-> FALSE]
None == [some |-> FALSE]
NoSnapshot == [id |-> 0]

Max(a, b) == IF a >= b THEN a ELSE b
Min(S) == CHOOSE x \in S : \A y \in S : x <= y

\* HealthcheckConfig with a CheckerConfig::Tcp {ip, port}; interval, timeout
\* and port are the same in all of them
HealthcheckConfig(i, r, a) == [id |-> i, retries |-> r, checker |-> "tcp", ip |-> a]

\* The Vec<HealthcheckConfig> values UpdateConfigs messages carry
ConfigLists ==
    { <<>>,
      <<HealthcheckConfig(1, 0, "10.0.0.1")>>,
      <<HealthcheckConfig(1, 2, "10.0.0.1")>>,
      <<HealthcheckConfig(2, 1, "::1"), HealthcheckConfig(1, 0, "10.0.0.1")>>,
      <<HealthcheckConfig(1, 0, "10.0.0.1"), HealthcheckConfig(2, 1, "10.0.0.2")>> }

\* HealthcheckConfig::to_monitor_config
to_monitor_config(c) ==
    [target |-> <<c.ip, ":", "80">>,
     rise |-> Max(c.retries + 1, 2),
     fall |-> Max(c.retries + 1, 2),
     check_type |-> c.checker]

\* HealthCheckStats::default()
HealthCheckStatsDefault ==
    [total_checks |-> 0, successful_checks |-> 0, failed_checks |-> 0,
     timeouts |-> 0, consecutive_successes |-> 0, consecutive_failures |-> 0]

\* HealthCheckStats::update as it would be with the Timeout arm not counting
\* the timeout (a faulty variant, used to test C10)
update_timeout_uncounted(s, status) ==
    LET t == [s EXCEPT !.total_checks = @ + 1]
    IN CASE status = "Healthy" ->
              [t EXCEPT !.successful_checks = @ + 1,
                        !.consecutive_successes = @ + 1,
                        !.consecutive_failures = 0]
         [] status \in {"Unhealthy", "Error"} ->
              [t EXCEPT !.failed_checks = @ + 1,
                        !.consecutive_failures = @ + 1,
                        !.consecutive_successes = 0]
         [] status = "Timeout" ->
              [t EXCEPT !.consecutive_failures = @ + 1,
                        !.consecutive_successes = 0]

\* HealthCheckStats::update as it would be with the Timeout arm leaving the
\* success streak alone (a faulty variant, used to test C11)
update_timeout_keeps_streak(s, status) ==
    LET t == [s EXCEPT !.total_checks = @ + 1]
    IN CASE status = "Healthy" ->
              [t EXCEPT !.successful_checks = @ + 1,
                        !.consecutive_successes = @ + 1,
                        !.consecutive_failures = 0]
         [] status \in {"Unhealthy", "Error"} ->
              [t EXCEPT !.failed_checks = @ + 1,
                        !.consecutive_failures = @ + 1,
                        !.consecutive_successes = 0]
         [] status = "Timeout" ->
              [t EXCEPT !.timeouts = @ + 1,
                        !.consecutive_failures = @ + 1]

\* HealthCheckStats::update; avg_response_time_ms, a float no decision reads,
\* is left out
update(s, status) ==
    LET t == [s EXCEPT !.total_checks = @ + 1]
    IN CASE status = "Healthy" ->
              [t EXCEPT !.successful_checks = @ + 1,
                        !.consecutive_successes = @ + 1,
                        !.consecutive_failures = 0]
         [] status \in {"Unhealthy", "Error"} ->
              [t EXCEPT !.failed_checks = @ + 1,
                        !.consecutive_failures = @ + 1,
                        !.consecutive_successes = 0]
         [] status = "Timeout" ->
              [t EXCEPT !.timeouts = @ + 1,
                        !.consecutive_failures = @ + 1,
                        !.consecutive_successes = 0]

\* HealthCheckMonitor::new.  task is the position of the task start() spawns
\* ("none" before start()); consecutive_successes and consecutive_failures
\* are the locals of process_result.
HealthCheckMonitor_new(monitor_config) ==
    [some |-> TRUE, config |-> monitor_config, stats |-> HealthCheckStatsDefault,
     is_up |-> FALSE, stop_signal |-> FALSE, tasks |-> <<>>]

\* HealthCheckMonitor::start: spawns the probing task, which consumes the
\* first, immediate tick of its interval and enters the select! loop
start(m) ==
    [m EXCEPT !.tasks = Append(@, [pc |-> "select", consecutive_successes |-> 0,
                                   consecutive_failures |-> 0])]

\* Notify::notify_one on stop_signal: a task waiting in select! is woken, or,
\* when none waits, the permit is stored; the result is one of these monitors
notify_one(m) ==
    LET waiters == {t \in 1..Len(m.tasks) : m.tasks[t].pc = "select"}
    IN IF waiters = {}
         THEN {[m EXCEPT !.stop_signal = TRUE]}
         ELSE {[m EXCEPT !.tasks[t].pc = "notified"] : t \in waiters}

\* Manager::create_monitor, Tcp arm: format!("{}:{}", ip, port) parses as a
\* SocketAddr for an IPv4 address; for an IPv6 address it does not (no
\* brackets) and `.ok()?` returns None
create_monitor(c) ==
    IF c.ip = "::1" THEN None ELSE HealthCheckMonitor_new(to_monitor_config(c))

\* Notifier::run up to its loop (the first tick of batch_timer is consumed,
\* last_batch_time is taken right after it) and ProxyComm::run before accept
\* "no message": the value of proxy_msg outside the forwarding await
NoMsg == [type |-> "none"]

\* A control agent that connects, sends nothing and closes its end
InboundClosed ==
    /\ agent_out = <<>>
    /\ sock_in = <<"EOF">>
    /\ line = <<>>
    /\ proxy_msg = NoMsg
    /\ from_proxy = <<>>
    /\ hpm_pc = "recv"
    /\ hpm_msg = NoMsg
    /\ agent_sent = <<>>
    /\ forwarded = <<>>

\* No packet and no timer value under examination
PureIdle ==
    /\ pk = NoPacket
    /\ pk_ips = <<>>
    /\ pk_sum = "unset"
    /\ pk_bytes = <<>>
    /\ pk_parsed = [ok |-> FALSE, err |-> "none"]
    /\ pk_valid = FALSE
    /\ pk_pc = "idle"
    /\ intervals = [master_down |-> 0, advert |-> 0]
    /\ ipvs_args = <<>>
    /\ ipvs_calls = <<>>

InitNotifier ==
    /\ produced = 0
    /\ batch_size \in 1..MaxBatch
    /\ ntf_pc = "select"
    /\ batch = <<>>
    /\ batch_age = 0
    /\ ticks_skipped = 0
    /\ last_batch_elapsed = 0
    /\ batch_timer \in {BatchDelay - 1, BatchDelay}
    /\ to_proxy = <<>>
    /\ proxy_pc = "accept"
    /\ written = <<>>
    /\ InboundClosed
    /\ PureIdle

\* The notifier and the proxy endpoint constructed and never run
NotifierIdle == InitNotifier /\ batch_size = 1 /\ batch_timer = BatchDelay

\* What one run may spend: many configuration lists with few probes, or
\* fewer lists with more probes
Budgets ==
    {[updates |-> MaxUpdates, checks |-> ManagedChecks - 1],
     [updates |-> MaxUpdates - 1, checks |-> ManagedChecks]}

\* Manager::new, and the tasks Manager::run starts
InitHc ==
    /\ mon = <<>>
    /\ monitors = [i \in Ids |-> NoEntry]
    /\ config_rx = <<>>
    /\ mgr_pc = "recv"
    /\ mgr_cfgs = <<>>
    /\ new_ids = {}
    /\ api_calls = <<>>
    /\ NotifierIdle
    /\ monitor_count = 0
    /\ poll_len = 0
    /\ observed = [i \in Ids |-> 0]
    /\ NlaIdle
    /\ poll_pc = "tick"
    /\ poll_last = 0
    /\ poll_cur = NoSnapshot
    /\ snapshots = <<>>
    /\ notify_q = <<>>
    /\ \E b \in Budgets : updates_left = b.updates /\ checks_left = b.checks


----------------------------------------------------------------------------
\* Environment: the clock, the network

\* The last instant the clock of the model reaches
LastInstant == (MaxTime \div TickMs) * TickMs

Tick ==
    /\ now + TickMs <= MaxTime
    /\ now' = now + TickMs
    /\ UNCHANGED <<config, state, stats, pc, ret, deadline, deadline_arg, packet,
                   advert_timer, sleep_until, spc, delivered, peer, hcVars>>

\* What self.socket.try_recv() can return: Ok(None) (NoPacket), or a datagram
\* a peer has sent: Err for one that does not parse, Ok(Some(..)) otherwise.
try_recv ==
    IF peer /\ delivered < MaxPackets THEN Datagrams \cup {NoPacket} ELSE {NoPacket}

----------------------------------------------------------------------------
\* VRRPNode::run

\* run(): entered, about to call init_transition
Run ==
    /\ pc = "start"
    /\ pc' = "init_transition"
    /\ UNCHANGED <<config, state, stats, ret, deadline, deadline_arg, packet,
                   advert_timer, sleep_until, spc, now, delivered, peer, hcVars>>

\* init_transition as it would be without the owner test: every node starts
\* as Backup (a faulty variant, used to test C4)
init_transition_no_owner ==
    /\ pc = "init_transition"
    /\ pc' = "tb_state"
    /\ ret' = "loop"
    /\ UNCHANGED <<config, state, stats, deadline, deadline_arg, packet,
                   advert_timer, sleep_until, spc, now, delivered, peer, hcVars>>

\* init_transition: priority 255 is the address owner
init_transition ==
    /\ pc = "init_transition"
    /\ IF config.priority = 255
         THEN pc' = "tm_state" /\ ret' = ret
         ELSE pc' = "tb_state" /\ ret' = "loop"
    /\ UNCHANGED <<config, state, stats, deadline, deadline_arg, packet,
                   advert_timer, sleep_until, spc, now, delivered, peer, hcVars>>

\* transition_to_master: *self.state.write().await = Master
transition_to_master_state ==
    /\ pc = "tm_state"
    /\ state' = "Master"
    /\ pc' = "tm_count"
    /\ UNCHANGED <<config, stats, ret, deadline, deadline_arg, packet,
                   advert_timer, sleep_until, spc, now, delivered, peer, hcVars>>

\* transition_to_master as it would be without the statistics update (a
\* faulty variant, used to test C3)
transition_to_master_uncounted ==
    /\ pc = "tm_count"
    /\ pc' = "tm_send"
    /\ UNCHANGED <<config, state, stats, ret, deadline, deadline_arg, packet,
                   advert_timer, sleep_until, spc, now, delivered, peer, hcVars>>

\* transition_to_master: self.stats.write().await.master_transitions += 1
transition_to_master_count ==
    /\ pc = "tm_count"
    /\ stats' = [stats EXCEPT !.master_transitions = @ + 1]
    /\ pc' = "tm_send"
    /\ UNCHANGED <<config, state, ret, deadline, deadline_arg, packet,
                   advert_timer, sleep_until, spc, now, delivered, peer, hcVars>>

\* send_advertisement: socket.send succeeds (counted) or fails (the error is
\* returned and `?` carries it out of run()).  `next` is where the caller
\* continues after Ok.
send_advertisement(next) ==
    \E ok \in BOOLEAN :
        IF ok
          THEN /\ stats' = [stats EXCEPT !.adverts_sent = @ + 1]
               /\ pc' = next
          ELSE /\ stats' = stats
               /\ pc' = "returned_err"

\* transition_to_master: self.send_advertisement().await?, then back to the
\* loop of run() (directly from init_transition, through Ok(()) from run_backup)
transition_to_master_send ==
    /\ pc = "tm_send"
    /\ send_advertisement("loop")
    /\ UNCHANGED <<config, state, ret, deadline, deadline_arg, packet,
                   advert_timer, sleep_until, spc, now, delivered, peer, hcVars>>

\* transition_to_backup: *self.state.write().await = Backup
transition_to_backup_state ==
    /\ pc = "tb_state"
    /\ state' = "Backup"
    /\ pc' = "tb_count"
    /\ UNCHANGED <<config, stats, ret, deadline, deadline_arg, packet,
                   advert_timer, sleep_until, spc, now, delivered, peer, hcVars>>

\* transition_to_backup: self.stats.write().await.backup_transitions += 1
transition_to_backup_count ==
    /\ pc = "tb_count"
    /\ stats' = [stats EXCEPT !.backup_transitions = @ + 1]
    /\ pc' = ret
    /\ ret' = "none"
    /\ UNCHANGED <<config, state, deadline, deadline_arg, packet,
                   advert_timer, sleep_until, spc, now, delivered, peer, hcVars>>

\* run(): match self.get_state().await
RunLoop ==
    /\ pc = "loop"
    /\ CASE state = "Init"   -> pc' = "init_sleep" /\ sleep_until' = now + InitSleepMs
         [] state = "Backup" -> pc' = "bk_enter" /\ sleep_until' = sleep_until
         [] state = "Master" -> pc' = "ms_enter" /\ sleep_until' = sleep_until
    /\ UNCHANGED <<config, state, stats, ret, deadline, deadline_arg, packet,
                   advert_timer, spc, now, delivered, peer, hcVars>>

\* run(): the sleep of the Init arm completes
RunInitSleep ==
    /\ pc = "init_sleep"
    /\ now >= sleep_until
    /\ pc' = "loop"
    /\ sleep_until' = NoTime
    /\ UNCHANGED <<config, state, stats, ret, deadline, deadline_arg, packet,
                   advert_timer, spc, now, delivered, peer, hcVars>>

----------------------------------------------------------------------------
\* VRRPNode::run_backup

\* run_backup: let deadline = Instant::now() + master_down
run_backup_enter ==
    /\ pc = "bk_enter"
    /\ deadline' = now + master_down_interval(config)
    /\ pc' = "bk_recv"
    /\ UNCHANGED <<config, state, stats, ret, deadline_arg, packet,
                   advert_timer, sleep_until, spc, now, delivered, peer, hcVars>>

\* run_backup: self.socket.try_recv() inside the 10 ms timeout (the block is
\* ready at once).  Ok(None) and Err fall through to the deadline check; a
\* packet is handed to handle_advertisement_backup with `&mut deadline.clone()`.
run_backup_recv ==
    /\ pc = "bk_recv"
    /\ \E d \in try_recv :
         /\ delivered' = IF d = NoPacket THEN delivered ELSE delivered + 1
         /\ IF d.kind = "advert"
              THEN /\ packet' = d
                   /\ deadline_arg' = deadline
                   /\ pc' = "bk_handle"
              ELSE /\ pc' = "bk_deadline"
                   /\ UNCHANGED <<packet, deadline_arg>>
    /\ UNCHANGED <<config, state, stats, ret, deadline,
                   advert_timer, sleep_until, spc, now, peer, hcVars>>

\* handle_advertisement_backup, lines 175-189: the value written through
\* `deadline: &mut Instant` for an accepted advertisement
backup_deadline_after(p, d) ==
    IF p.priority = 0
      THEN now
      ELSE IF p.priority >= config.priority \/ config.preempt
             THEN now + master_down_interval(config)
             ELSE d

\* handle_advertisement_backup: VRID check, checksum check, counters, and the
\* write to the borrowed deadline
handle_advertisement_backup ==
    /\ pc = "bk_handle"
    /\ IF packet.vrid # config.vrid
         THEN UNCHANGED <<stats, deadline_arg>>
         ELSE IF ~packet.cksum_ok
                THEN /\ stats' = [stats EXCEPT !.checksum_errors = @ + 1]
                     /\ UNCHANGED deadline_arg
                ELSE /\ stats' = [stats EXCEPT !.adverts_received = @ + 1]
                     /\ deadline_arg' = backup_deadline_after(packet, deadline_arg)
    /\ pc' = "bk_check_state"
    /\ UNCHANGED <<config, state, ret, deadline, packet,
                   advert_timer, sleep_until, spc, now, delivered, peer, hcVars>>

\* run_backup: the temporary is dropped; if self.get_state().await != Backup
\* { return Ok(()) }
run_backup_check_state ==
    /\ pc = "bk_check_state"
    /\ deadline_arg' = NoTime
    /\ IF state # "Backup"
         THEN pc' = "loop" /\ deadline' = NoTime /\ packet' = NoPacket
         ELSE pc' = "bk_deadline" /\ UNCHANGED <<deadline, packet>>
    /\ UNCHANGED <<config, state, stats, ret,
                   advert_timer, sleep_until, spc, now, delivered, peer, hcVars>>

\* run_backup: if Instant::now() >= deadline { transition_to_master; return }
run_backup_deadline ==
    /\ pc = "bk_deadline"
    /\ IF now >= deadline
         THEN pc' = "tm_state" /\ deadline' = NoTime
         ELSE pc' = "bk_recv" /\ deadline' = deadline
    /\ packet' = NoPacket
    /\ UNCHANGED <<config, state, stats, ret, deadline_arg,
                   advert_timer, sleep_until, spc, now, delivered, peer, hcVars>>

----------------------------------------------------------------------------
\* VRRPNode::run_master

\* run_master: let mut advert_timer = interval(advert_interval); the first
\* tick of a tokio interval completes immediately
run_master_enter ==
    /\ pc = "ms_enter"
    /\ advert_timer' = now
    /\ pc' = "ms_select"
    /\ UNCHANGED <<config, state, stats, ret, deadline, deadline_arg, packet,
                   sleep_until, spc, now, delivered, peer, hcVars>>

\* select! branch `_ = advert_timer.tick()`: ready once the tick is due; a
\* missed tick is made up (MissedTickBehavior::Burst)
run_master_tick ==
    /\ pc = "ms_select"
    /\ now >= advert_timer
    /\ advert_timer' = advert_timer + advert_interval_ms(config)
    /\ pc' = "ms_send"
    /\ UNCHANGED <<config, state, stats, ret, deadline, deadline_arg, packet,
                   sleep_until, spc, now, delivered, peer, hcVars>>

\* run_master: self.send_advertisement().await? of the tick branch
run_master_send ==
    /\ pc = "ms_send"
    /\ send_advertisement("ms_select")
    /\ UNCHANGED <<config, state, ret, deadline, deadline_arg, packet,
                   advert_timer, sleep_until, spc, now, delivered, peer, hcVars>>

\* select! branch `result = async { self.socket.try_recv() }`: always ready;
\* anything but Ok(Some(..)) goes round the loop
run_master_recv ==
    /\ pc = "ms_select"
    /\ \E d \in try_recv :
         /\ delivered' = IF d = NoPacket THEN delivered ELSE delivered + 1
         /\ IF d.kind = "advert"
              THEN packet' = d /\ pc' = "ms_handle"
              ELSE UNCHANGED <<packet, pc>>
    /\ UNCHANGED <<config, state, stats, ret, deadline, deadline_arg,
                   advert_timer, sleep_until, spc, now, peer, hcVars>>

\* handle_advertisement_master, lines 250-284: whether an accepted
\* advertisement makes the Master step down
\* The step-down test as it would be with >= for > on the priority (a faulty
\* variant, used to test C5)
master_yields_on_equal(p) ==
    \/ p.priority >= config.priority
    \/ /\ p.priority = config.priority
       /\ p.src_ip.fam = primary_ip.fam
       /\ p.src_ip.val > primary_ip.val

master_yields(p) ==
    \/ p.priority > config.priority
    \/ /\ p.priority = config.priority
       /\ p.src_ip.fam = primary_ip.fam
       /\ p.src_ip.val > primary_ip.val

\* handle_advertisement_master: VRID check, checksum check, counters, and the
\* call of transition_to_backup
handle_advertisement_master ==
    /\ pc = "ms_handle"
    /\ IF packet.vrid # config.vrid
         THEN pc' = "ms_check_state" /\ UNCHANGED <<stats, ret>>
         ELSE IF ~packet.cksum_ok
                THEN /\ stats' = [stats EXCEPT !.checksum_errors = @ + 1]
                     /\ pc' = "ms_check_state"
                     /\ UNCHANGED ret
                ELSE /\ stats' = [stats EXCEPT !.adverts_received = @ + 1]
                     /\ IF master_yields(packet)
                          THEN pc' = "tb_state" /\ ret' = "ms_check_state"
                          ELSE pc' = "ms_check_state" /\ UNCHANGED ret
    /\ UNCHANGED <<config, state, deadline, deadline_arg, packet,
                   advert_timer, sleep_until, spc, now, delivered, peer, hcVars>>

\* run_master: if self.get_state().await != Master { return Ok(()) }
run_master_check_state ==
    /\ pc = "ms_check_state"
    /\ packet' = NoPacket
    /\ IF state # "Master"
         THEN pc' = "loop" /\ advert_timer' = NoTime
         ELSE pc' = "ms_select" /\ UNCHANGED advert_timer
    /\ UNCHANGED <<config, state, stats, ret, deadline, deadline_arg,
                   sleep_until, spc, now, delivered, peer, hcVars>>

----------------------------------------------------------------------------
\* VRRPNode::shutdown, called from another task

\* shutdown: if self.get_state().await == Master
shutdown_get_state ==
    /\ spc = "idle"
    /\ spc' = IF state = "Master" THEN "sd_send" ELSE "sd_set"
    /\ UNCHANGED <<config, state, stats, pc, ret, deadline, deadline_arg, packet,
                   advert_timer, sleep_until, now, delivered, peer, hcVars>>

\* shutdown: self.socket.send(&packet, ..)? of the priority-0 advertisement
shutdown_send ==
    /\ spc = "sd_send"
    /\ \E ok \in BOOLEAN : spc' = IF ok THEN "sd_set" ELSE "sd_err"
    /\ UNCHANGED <<config, state, stats, pc, ret, deadline, deadline_arg, packet,
                   advert_timer, sleep_until, now, delivered, peer, hcVars>>

\* shutdown: *self.state.write().await = Init; Ok(())
shutdown_set_init ==
    /\ spc = "sd_set"
    /\ state' = "Init"
    /\ spc' = "sd_done"
    /\ UNCHANGED <<config, stats, pc, ret, deadline, deadline_arg, packet,
                   advert_timer, sleep_until, now, delivered, peer, hcVars>>

----------------------------------------------------------------------------
\* The VRRP node with its environment

NextVrrp ==
    \/ Tick
    \/ Run
    \/ init_transition
    \/ transition_to_master_state
    \/ transition_to_master_count
    \/ transition_to_master_send
    \/ transition_to_backup_state
    \/ transition_to_backup_count
    \/ RunLoop
    \/ RunInitSleep
    \/ run_backup_enter
    \/ run_backup_recv
    \/ handle_advertisement_backup
    \/ run_backup_check_state
    \/ run_backup_deadline
    \/ run_master_enter
    \/ run_master_tick
    \/ run_master_send
    \/ run_master_recv
    \/ handle_advertisement_master
    \/ run_master_check_state
    \/ shutdown_get_state
    \/ shutdown_send
    \/ shutdown_set_init

\* A VRRP node by itself: the health-check engine is constructed and idle
InitNode == InitVrrp /\ InitHc

SpecVrrp == InitNode /\ [][NextVrrp]_vars

\* The steps of the task that executes run(), except the two select! branches
RunTask ==
    \/ Run
    \/ init_transition
    \/ transition_to_master_state
    \/ transition_to_master_count
    \/ transition_to_master_send
    \/ transition_to_backup_state
    \/ transition_to_backup_count
    \/ RunLoop
    \/ RunInitSleep
    \/ run_backup_enter
    \/ run_backup_recv
    \/ handle_advertisement_backup
    \/ run_backup_check_state
    \/ run_backup_deadline
    \/ run_master_enter
    \/ run_master_send
    \/ handle_advertisement_master
    \/ run_master_check_state

\* Scheduling: the clock advances; a spawned task that can step does step;
\* select! polls its branches in random order, so a branch that is ready again
\* and again is taken (strong fairness of each branch); a shutdown() call in
\* progress runs to its end.  Nothing obliges anyone to call shutdown().
FairVrrp ==
    /\ WF_vars(Tick)
    /\ WF_vars(RunTask)
    /\ SF_vars(run_master_tick)
    /\ SF_vars(run_master_recv)
    /\ WF_vars(shutdown_send)
    /\ WF_vars(shutdown_set_init)

SpecVrrpFair == InitNode /\ [][NextVrrp]_vars /\ FairVrrp

----------------------------------------------------------------------------
\* Properties of the VRRP node

\* An advertisement handle_advertisement_backup/master accepts: matching VRID
\* and valid checksum
Accepted(p) == p.kind = "advert" /\ p.vrid = config.vrid /\ p.cksum_ok

\* C1: in the Backup loop every accepted advertisement with priority >= the
\* node's own re-arms the Master_Down deadline of run_backup to
\* now + Master_Down_Interval.
C1_RearmOnAdvert ==
    [][(pc = "bk_handle" /\ pc' # pc /\ Accepted(packet)
          /\ packet.priority >= config.priority)
         => deadline' = now + master_down_interval(config)]_vars

\* C2: after an accepted priority-0 advertisement the very next deadline check
\* of the Backup loop makes the node Master.
C2_PriorityZeroCollapses ==
    [][(pc = "bk_deadline" /\ pc' # pc /\ Accepted(packet) /\ packet.priority = 0)
         => pc' = "tm_state"]_vars

\* C3: a Backup node that receives no advertisement becomes Master once
\* Master_Down_Interval has elapsed since it entered run_backup (and not
\* earlier); the transition adds exactly one to master_transitions and calls
\* the socket send of an advertisement.
C3_MasterDownExpiry ==
    /\ (pc = "bk_recv" /\ ~peer /\ stats.master_transitions = 0
           /\ deadline <= LastInstant)
         ~> (pc \in {"loop", "returned_err"} /\ stats.master_transitions = 1)
    /\ [][/\ (pc = "bk_enter" /\ pc' # pc) => deadline' = now + master_down_interval(config)
          /\ (pc = "bk_deadline" /\ pc' = "tm_state") => now >= deadline
          /\ pc \in {"bk_recv", "bk_handle", "bk_check_state"} =>
                (deadline' = deadline \/ pc' = "loop")
          /\ (pc = "tm_state" /\ pc' # pc) => state' = "Master"
          /\ (pc = "tm_count" /\ pc' # pc) =>
                stats'.master_transitions = stats.master_transitions + 1
          /\ stats'.master_transitions # stats.master_transitions =>
                (pc = "tm_count" /\ stats'.master_transitions = stats.master_transitions + 1)
          /\ (pc = "tm_send" /\ pc' # pc) =>
                (stats'.adverts_sent = stats.adverts_sent + 1 \/ pc' = "returned_err")
         ]_vars

\* C3 witness: a silent network, the deadline has passed and the node has
\* just completed its transition out of run_backup.
C3_Witness ==
    /\ ~peer
    /\ pc = "loop"
    /\ state = "Master"
    /\ config.priority = 100
    /\ stats.master_transitions = 1
    /\ stats.adverts_sent = 1
    /\ now >= master_down_interval(config)

\* C4: run() takes a priority-255 node from Init straight to Master (it is not
\* in Backup before master_transitions is 1) and any other node from Init to
\* Backup (it is not Master before a Backup period), and run_backup arms the
\* Master_Down deadline on entry.
C4_InitTransition ==
    /\ [](config.priority = 255 /\ state = "Backup" => stats.master_transitions >= 1)
    /\ [](config.priority = 255 /\ pc = "loop" => stats.master_transitions >= 1)
    /\ [](config.priority # 255 /\ state = "Master" => stats.backup_transitions >= 1)
    /\ [](pc \in {"bk_recv", "bk_handle", "bk_check_state", "bk_deadline"}
            => deadline # NoTime)
    /\ [][/\ (pc = "init_transition" /\ pc' # pc) =>
                pc' = IF config.priority = 255 THEN "tm_state" ELSE "tb_state"
          /\ (pc = "tm_state" /\ pc' # pc /\ stats.master_transitions = 0
                /\ config.priority = 255)
                => (state = "Init" /\ state' = "Master")
          /\ (pc = "tb_state" /\ pc' # pc /\ stats.backup_transitions = 0
                /\ config.priority # 255)
                => (state = "Init" /\ state' = "Backup")
          /\ (pc = "tm_count" /\ pc' # pc /\ config.priority = 255
                /\ stats.backup_transitions = 0)
                => stats'.master_transitions = 1
          /\ (pc = "bk_enter" /\ pc' # pc) => deadline' = now + master_down_interval(config)
         ]_vars

\* C4 witnesses: an owner that is Master after its first transition, and a
\* non-owner in the Backup loop with the deadline armed.
C4_Witness ==
    /\ config.priority = 255
    /\ pc = "ms_select"
    /\ state = "Master"
    /\ stats.master_transitions = 1
    /\ stats.backup_transitions = 0

\* C5: a Master that handles an advertisement steps down to Backup exactly
\* when the advertisement is accepted and either its priority is higher than
\* the node's, or equal with a source address of the same family numerically
\* greater than the primary address.
C5_MasterYieldsIff ==
    [][/\ (pc = "ms_handle" /\ pc' # pc) =>
            ( (pc' = "tb_state")
              <=> ( /\ Accepted(packet)
                    /\ \/ packet.priority > config.priority
                       \/ /\ packet.priority = config.priority
                          /\ packet.src_ip.fam = primary_ip.fam
                          /\ packet.src_ip.val > primary_ip.val ) )
       /\ (pc = "ms_handle" /\ pc' \notin {pc, "tb_state"}) => state' = state
       /\ (pc = "tb_state" /\ pc' # pc /\ ret = "ms_check_state") => state' = "Backup"
      ]_vars

\* C5 witness: a Master has stepped down for an equal-priority advertisement
\* from a higher address.
C5_Witness ==
    /\ pc = "tb_count"
    /\ ret = "ms_check_state"
    /\ state = "Backup"
    /\ packet.kind = "advert"
    /\ packet.priority = config.priority
    /\ packet.src_ip = [fam |-> 4, val |-> 3]

\* C6: once shutdown() has returned Ok the state is Init and stays Init.
C6_ShutdownFinal == spc = "sd_done" => state = "Init"

\* C7: while the node is Master and shutdown() has not been called, the
\* advertisement counter keeps growing (as long as the clock of the model can
\* still reach the next tick).
C7_AdvertsKeepFlowing ==
    \A n \in 0..((MaxTime \div TickMs) + MaxPackets + 2) :
        (state = "Master" /\ spc = "idle" /\ stats.adverts_sent = n
           /\ now < LastInstant)
        ~> (stats.adverts_sent > n \/ state # "Master" \/ spc # "idle")

(***************************************************************************)
(* Part II - health-check engine: tasks                                    *)
(***************************************************************************)

\* The VRRP node is constructed and never run
VrrpIdle ==
    /\ InitVrrp
    /\ config = [vrid |-> 1, priority |-> 100,
                 advert_interval |-> DEFAULT_ADVERT_INTERVAL, preempt |-> TRUE]
    /\ ~peer

\* The shard of the DashMap whose read guard monitors.iter() holds in
\* monitor_task, 0 when it holds none.  Every key has a shard of its own.
iter_guard == IF poll_pc \in {"is_healthy", "get_stats"} THEN poll_cur.id ELSE 0

PresentIds == {i \in Ids : monitors[i].present}

\* ChannelSettings of the configuration in force
channels ==
    [notification |-> NotifyCap, config_update |-> ConfigCap,
     proxy_message |-> FromProxyCap]

\* Config::to_server_config, the channel sizes of the ServerConfig
to_server_config ==
    [channel_size |-> channels.notification,
     config_channel_size |-> channels.config_update,
     proxy_channel_size |-> channels.proxy_message]

\* HealthcheckServer::run, "Create channels": the capacity each channel is
\* created with
notify_capacity == to_server_config.channel_size
config_capacity == to_server_config.config_channel_size
to_proxy_capacity == to_server_config.channel_size
from_proxy_capacity == to_server_config.proxy_channel_size

----------------------------------------------------------------------------
\* Server::handle_proxy_messages, UpdateConfigs arm: config_tx.send(configs)
handle_proxy_messages ==
    /\ updates_left > 0
    /\ Len(config_rx) < config_capacity
    /\ \E configs \in ConfigLists : config_rx' = Append(config_rx, configs)
    /\ updates_left' = updates_left - 1
    /\ UNCHANGED <<mon, monitors, mgr_pc, mgr_cfgs, new_ids, monitor_count, poll_pc,
                   poll_last, poll_cur, snapshots, notify_q, checks_left, api_calls, ntfVars, inVars, pureVars, pollVars, nlVars, vrrpVars>>

----------------------------------------------------------------------------
\* Manager::run and Manager::update_configs

\* run(): self.config_rx.recv().await returned Some(configs); update_configs
\* starts and collects new_ids
Manager_run ==
    /\ mgr_pc = "recv"
    /\ config_rx # <<>>
    /\ mgr_cfgs' = Head(config_rx)
    /\ new_ids' = {Head(config_rx)[k].id : k \in 1..Len(Head(config_rx))}
    /\ config_rx' = Tail(config_rx)
    /\ mgr_pc' = "retain"
    /\ UNCHANGED <<mon, monitors, updates_left, monitor_count, poll_pc,
                   poll_last, poll_cur, snapshots, notify_q, checks_left, api_calls, ntfVars, inVars, pureVars, pollVars, nlVars, vrrpVars>>

\* update_configs: self.monitors.retain(..), which write-locks
\* every shard
update_configs_retain ==
    /\ mgr_pc = "retain"
    /\ iter_guard = 0
    /\ monitors' = [i \in Ids |-> IF i \in new_ids THEN monitors[i] ELSE NoEntry]
    /\ mgr_pc' = "count_removed"
    /\ UNCHANGED <<mon, config_rx, updates_left, mgr_cfgs, new_ids, monitor_count, poll_pc,
                   poll_last, poll_cur, snapshots, notify_q, checks_left, api_calls, ntfVars, inVars, pureVars, pollVars, nlVars, vrrpVars>>

\* update_configs: update_monitor_count after removals
update_configs_count_removed ==
    /\ mgr_pc = "count_removed"
    /\ monitor_count' = Cardinality(PresentIds)
    /\ mgr_pc' = "apply"
    /\ UNCHANGED <<mon, monitors, config_rx, updates_left, mgr_cfgs, new_ids, poll_pc,
                   poll_last, poll_cur, snapshots, notify_q, checks_left, api_calls, ntfVars, inVars, pureVars, pollVars, nlVars, vrrpVars>>

\* One round of `for config in configs` as it would be if it rebuilt the
\* monitor of an existing entry whatever its config (a faulty variant, used to
\* test C33)
update_configs_apply_always_rebuilds ==
    /\ mgr_pc = "apply"
    /\ mgr_cfgs # <<>>
    /\ LET c == Head(mgr_cfgs)
           entry == monitors[c.id]
           new_monitor == create_monitor(c)
           at == Len(mon) + 1
       IN /\ iter_guard # c.id
          /\ IF entry.present
               THEN IF new_monitor.some
                      THEN /\ mon' = Append(mon, start(new_monitor))
                           /\ monitors' = [monitors EXCEPT ![c.id].monitor = at,
                                                           ![c.id].config = c]
                      ELSE UNCHANGED <<mon, monitors>>
               ELSE IF new_monitor.some
                      THEN /\ mon' = Append(mon, start(new_monitor))
                           /\ monitors' = [monitors EXCEPT ![c.id] =
                                  [present |-> TRUE, config |-> c, monitor |-> at,
                                   successes |-> 0, failures |-> 0,
                                   last_state |-> "Unknown"]]
                      ELSE UNCHANGED <<mon, monitors>>
    /\ mgr_cfgs' = Tail(mgr_cfgs)
    /\ UNCHANGED <<config_rx, updates_left, mgr_pc, new_ids, monitor_count, poll_pc,
                   poll_last, poll_cur, snapshots, notify_q, checks_left, api_calls, ntfVars, inVars, pureVars, pollVars, nlVars, vrrpVars>>

\* update_configs: one round of `for config in configs`
update_configs_apply ==
    /\ mgr_pc = "apply"
    /\ mgr_cfgs # <<>>
    /\ LET c == Head(mgr_cfgs)
           entry == monitors[c.id]
           new_monitor == create_monitor(c)
           at == Len(mon) + 1
       IN /\ iter_guard # c.id
          /\ IF entry.present
               THEN IF to_monitor_config(entry.config) # to_monitor_config(c)
                       /\ new_monitor.some
                      THEN /\ mon' = Append(mon, start(new_monitor))
                           /\ monitors' = [monitors EXCEPT ![c.id].monitor = at,
                                                           ![c.id].config = c]
                      ELSE UNCHANGED <<mon, monitors>>
               ELSE IF new_monitor.some
                      THEN /\ mon' = Append(mon, start(new_monitor))
                           /\ monitors' = [monitors EXCEPT ![c.id] =
                                  [present |-> TRUE, config |-> c, monitor |-> at,
                                   successes |-> 0, failures |-> 0,
                                   last_state |-> "Unknown"]]
                      ELSE UNCHANGED <<mon, monitors>>
    /\ mgr_cfgs' = Tail(mgr_cfgs)
    /\ UNCHANGED <<config_rx, updates_left, mgr_pc, new_ids, monitor_count, poll_pc,
                   poll_last, poll_cur, snapshots, notify_q, checks_left, api_calls, ntfVars, inVars, pureVars, pollVars, nlVars, vrrpVars>>

\* update_configs: update_monitor_count after additions, back to recv
update_configs_count_added ==
    /\ mgr_pc = "apply"
    /\ mgr_cfgs = <<>>
    /\ monitor_count' = Cardinality(PresentIds)
    /\ mgr_pc' = "recv"
    /\ UNCHANGED <<mon, monitors, config_rx, updates_left, mgr_cfgs, new_ids, poll_pc,
                   poll_last, poll_cur, snapshots, notify_q, checks_left, api_calls, ntfVars, inVars, pureVars, pollVars, nlVars, vrrpVars>>

----------------------------------------------------------------------------
\* The probing task of monitor o (HealthCheckMonitor::start)

\* select!: check_interval.tick() fired and checker.check() returned a result
\* with this status; process_result: stats.write(), update, copy the streaks.
\* A task that was woken by notify_one and takes the tick branch drops its
\* Notified future, which passes the notification on.
process_result_stats(o, t, status) ==
    /\ mon[o].tasks[t].pc \in {"select", "notified"}
    /\ checks_left > 0
    /\ LET stats_guard == update(mon[o].stats, status)
           probed == [mon[o] EXCEPT !.stats = stats_guard,
                        !.tasks[t].consecutive_successes = stats_guard.consecutive_successes,
                        !.tasks[t].consecutive_failures = stats_guard.consecutive_failures,
                        !.tasks[t].pc = "is_up"]
       IN \E m \in (IF mon[o].tasks[t].pc = "notified" THEN notify_one(probed) ELSE {probed}) :
              mon' = [mon EXCEPT ![o] = m]
    /\ checks_left' = checks_left - 1
    /\ UNCHANGED <<monitors, config_rx, updates_left, mgr_pc, mgr_cfgs, new_ids,
                   monitor_count, poll_pc, poll_last, poll_cur, snapshots,
                   notify_q, api_calls, ntfVars, inVars, pureVars, pollVars, nlVars, vrrpVars>>

\* The hysteresis as it would be if the first failure took an up monitor
\* down (a faulty variant, used to test C8)
process_result_is_up_no_fall(o, t) ==
    /\ mon[o].tasks[t].pc = "is_up"
    /\ LET was_up == mon[o].is_up
           is_up_guard ==
               IF ~was_up /\ mon[o].tasks[t].consecutive_successes >= mon[o].config.rise
                 THEN TRUE
                 ELSE IF was_up /\ mon[o].tasks[t].consecutive_failures >= 1
                        THEN FALSE
                        ELSE was_up
       IN mon' = [mon EXCEPT ![o].is_up = is_up_guard, ![o].tasks[t].pc = "select"]
    /\ UNCHANGED <<monitors, config_rx, updates_left, mgr_pc, mgr_cfgs, new_ids,
                   monitor_count, poll_pc, poll_last, poll_cur, snapshots,
                   notify_q, checks_left, api_calls, ntfVars, inVars, pureVars, pollVars, nlVars, vrrpVars>>

\* process_result: is_up.write(), the hysteresis
process_result_is_up(o, t) ==
    /\ mon[o].tasks[t].pc = "is_up"
    /\ LET was_up == mon[o].is_up
           is_up_guard ==
               IF ~was_up /\ mon[o].tasks[t].consecutive_successes >= mon[o].config.rise
                 THEN TRUE
                 ELSE IF was_up /\ mon[o].tasks[t].consecutive_failures >= mon[o].config.fall
                        THEN FALSE
                        ELSE was_up
       IN mon' = [mon EXCEPT ![o].is_up = is_up_guard, ![o].tasks[t].pc = "select"]
    /\ UNCHANGED <<monitors, config_rx, updates_left, mgr_pc, mgr_cfgs, new_ids,
                   monitor_count, poll_pc, poll_last, poll_cur, snapshots,
                   notify_q, checks_left, api_calls, ntfVars, inVars, pureVars, pollVars, nlVars, vrrpVars>>

\* select!: stop_signal.notified() completed, because notify_one woke this
\* task or because it takes the stored permit; the loop breaks
monitor_task_stop(o, t) ==
    /\ \/ mon[o].tasks[t].pc = "notified"
       \/ mon[o].tasks[t].pc = "select" /\ mon[o].stop_signal
    /\ mon' = [mon EXCEPT ![o].tasks[t].pc = "stopped",
                          ![o].stop_signal = IF mon[o].tasks[t].pc = "notified" THEN @ ELSE FALSE]
    /\ UNCHANGED <<monitors, config_rx, updates_left, mgr_pc, mgr_cfgs, new_ids,
                   monitor_count, poll_pc, poll_last, poll_cur, snapshots,
                   notify_q, checks_left, api_calls, ntfVars, inVars, pureVars, pollVars, nlVars, vrrpVars>>

----------------------------------------------------------------------------
\* The calls of the owner of a monitor used on its own (healthcheck_start and
\* healthcheck_stop of healthcheck-ffi)

\* HealthCheckMonitor::start
healthcheck_start(o) ==
    /\ Len(api_calls) < MaxCalls
    /\ mon' = [mon EXCEPT ![o] = start(@)]
    /\ api_calls' = Append(api_calls, "start")
    /\ UNCHANGED <<monitors, config_rx, updates_left, mgr_pc, mgr_cfgs, new_ids,
                   monitor_count, poll_pc, poll_last, poll_cur, snapshots,
                   notify_q, checks_left, ntfVars, inVars, pureVars, pollVars, nlVars, vrrpVars>>

\* HealthCheckMonitor::stop
healthcheck_stop(o) ==
    /\ Len(api_calls) < MaxCalls
    /\ \E m \in notify_one(mon[o]) : mon' = [mon EXCEPT ![o] = m]
    /\ api_calls' = Append(api_calls, "stop")
    /\ UNCHANGED <<monitors, config_rx, updates_left, mgr_pc, mgr_cfgs, new_ids,
                   monitor_count, poll_pc, poll_last, poll_cur, snapshots,
                   notify_q, checks_left, ntfVars, inVars, pureVars, pollVars, nlVars, vrrpVars>>

----------------------------------------------------------------------------
\* Manager::monitor_task, the poller

\* interval.tick() returned; monitors.len(), the argument of
\* update_monitor_count, is evaluated
monitor_task_tick ==
    /\ poll_pc = "tick"
    /\ poll_len' = Cardinality(PresentIds)
    /\ poll_pc' = "update_monitor_count"
    /\ UNCHANGED <<mon, monitors, config_rx, updates_left, mgr_pc, mgr_cfgs, new_ids,
                   monitor_count, poll_last, poll_cur, snapshots, notify_q, checks_left,
                   api_calls, observed, ntfVars, inVars, pureVars, nlVars, vrrpVars>>

\* m.update_monitor_count(..) stores the count in the gauge, on the worker
\* thread of the poller while the manager runs on its own; then
\* snapshots = Vec::with_capacity(..) and monitors.iter()
monitor_task_update_monitor_count ==
    /\ poll_pc = "update_monitor_count"
    /\ monitor_count' = poll_len
    /\ poll_len' = 0
    /\ snapshots' = <<>>
    /\ poll_last' = 0
    /\ poll_pc' = "iter"
    /\ UNCHANGED <<mon, monitors, config_rx, updates_left, mgr_pc, mgr_cfgs, new_ids,
                   poll_cur, notify_q, checks_left, api_calls, observed, ntfVars, inVars,
                   pureVars, nlVars, vrrpVars>>

\* `for entry in monitors.iter()`: the iterator yields the next entry of the
\* live map (keys in ascending order), or ends
monitor_task_iter ==
    /\ poll_pc = "iter"
    /\ LET rest == {i \in PresentIds : i > poll_last}
       IN IF rest = {}
            THEN poll_pc' = "process" /\ UNCHANGED poll_cur
            ELSE poll_pc' = "is_healthy" /\ poll_cur' = [id |-> Min(rest)]
    /\ UNCHANGED <<mon, monitors, config_rx, updates_left, mgr_pc, mgr_cfgs, new_ids,
                   monitor_count, poll_last, snapshots, notify_q, checks_left,
                   api_calls, ntfVars, inVars, pureVars, pollVars, nlVars, vrrpVars>>

\* state.monitor.is_healthy().await
monitor_task_is_healthy ==
    /\ poll_pc = "is_healthy"
    /\ poll_cur' = [id |-> poll_cur.id,
                    is_healthy |-> mon[monitors[poll_cur.id].monitor].is_up]
    /\ poll_pc' = "get_stats"
    /\ UNCHANGED <<mon, monitors, config_rx, updates_left, mgr_pc, mgr_cfgs, new_ids,
                   monitor_count, poll_last, snapshots, notify_q, checks_left,
                   api_calls, ntfVars, inVars, pureVars, pollVars, nlVars, vrrpVars>>

\* state.monitor.get_stats().await and snapshots.push(MonitorSnapshot {..})
monitor_task_get_stats ==
    /\ poll_pc = "get_stats"
    /\ LET state_ == monitors[poll_cur.id]
       IN snapshots' = Append(snapshots,
              [id |-> poll_cur.id,
               is_healthy |-> poll_cur.is_healthy,
               stats |-> mon[state_.monitor].stats,
               checker_type |-> state_.config.checker,
               prev_successes |-> state_.successes,
               prev_failures |-> state_.failures,
               last_state |-> state_.last_state])
    /\ poll_last' = poll_cur.id
    /\ poll_cur' = NoSnapshot
    /\ poll_pc' = "iter"
    /\ UNCHANGED <<mon, monitors, config_rx, updates_left, mgr_pc, mgr_cfgs, new_ids,
                   monitor_count, notify_q, checks_left, api_calls, ntfVars, inVars, pureVars, pollVars, nlVars, vrrpVars>>

\* monitor_task: new_state of a snapshot
new_state(snap) == IF snap.is_healthy THEN "Healthy" ELSE "Unhealthy"

\* MetricsRegistry::record_check_with_id: one check observation (and its
\* response time) recorded for the id
record_check_with_id(obs, id) == [obs EXCEPT ![id] = @ + 1]

\* monitor_task, "Record check metrics": one call when successful_checks has
\* grown past the stored count and one when failed_checks has
record_checks(obs, snap) ==
    LET succ == IF snap.stats.successful_checks > snap.prev_successes
                  THEN record_check_with_id(obs, snap.id) ELSE obs
    IN IF snap.stats.failed_checks > snap.prev_failures
         THEN record_check_with_id(succ, snap.id) ELSE succ

\* The pass as it would be if it reported every snapshot, changed or not (a
\* faulty variant, used to test C12)
monitor_task_process_always_sends ==
    /\ poll_pc = "process"
    /\ IF snapshots = <<>>
         THEN poll_pc' = "tick" /\ UNCHANGED <<monitors, snapshots, observed>>
         ELSE LET snap == Head(snapshots)
              IN /\ observed' = record_checks(observed, snap)
                 /\ IF monitors[snap.id].present
                      THEN monitors' = [monitors EXCEPT
                               ![snap.id].successes = snap.stats.successful_checks,
                               ![snap.id].failures = snap.stats.failed_checks,
                               ![snap.id].last_state = new_state(snap)]
                      ELSE UNCHANGED monitors
                 /\ poll_pc' = "send" /\ UNCHANGED snapshots
    /\ UNCHANGED <<mon, config_rx, updates_left, mgr_pc, mgr_cfgs, new_ids, monitor_count,
                   poll_last, poll_cur, notify_q, checks_left, api_calls, poll_len, ntfVars,
                   inVars, pureVars, nlVars, vrrpVars>>

\* `for snap in &snapshots`: the entry update under monitors.get_mut, or the
\* end of the pass
monitor_task_process ==
    /\ poll_pc = "process"
    /\ IF snapshots = <<>>
         THEN poll_pc' = "tick" /\ UNCHANGED <<monitors, snapshots, observed>>
         ELSE LET snap == Head(snapshots)
              IN /\ observed' = record_checks(observed, snap)
                 /\ IF monitors[snap.id].present
                      THEN monitors' = [monitors EXCEPT
                               ![snap.id].successes = snap.stats.successful_checks,
                               ![snap.id].failures = snap.stats.failed_checks,
                               ![snap.id].last_state =
                                   IF new_state(snap) # snap.last_state
                                     THEN new_state(snap) ELSE @]
                      ELSE UNCHANGED monitors
                 /\ IF new_state(snap) # snap.last_state
                      THEN poll_pc' = "send" /\ UNCHANGED snapshots
                      ELSE poll_pc' = "process" /\ snapshots' = Tail(snapshots)
    /\ UNCHANGED <<mon, config_rx, updates_left, mgr_pc, mgr_cfgs, new_ids, monitor_count,
                   poll_last, poll_cur, notify_q, checks_left, api_calls, poll_len, ntfVars,
                   inVars, pureVars, nlVars, vrrpVars>>

\* The Notification monitor_task builds from a snapshot; total is the total
\* the message "{successful}/{total} checks successful" shows
Notification(snap) ==
    [id |-> snap.id,
     failures |-> snap.stats.failed_checks,
     successes |-> snap.stats.successful_checks,
     state |-> new_state(snap),
     total |-> snap.stats.total_checks]

\* notify_tx.send(notification).await, which waits while the channel is full
monitor_task_send ==
    /\ poll_pc = "send"
    /\ Len(notify_q) < notify_capacity
    /\ notify_q' = Append(notify_q, Notification(Head(snapshots)))
    /\ snapshots' = Tail(snapshots)
    /\ poll_pc' = "process"
    /\ UNCHANGED <<mon, monitors, config_rx, updates_left, mgr_pc, mgr_cfgs, new_ids,
                   monitor_count, poll_last, poll_cur, checks_left, api_calls, ntfVars, inVars, pureVars, pollVars, nlVars, vrrpVars>>

----------------------------------------------------------------------------
NextHc ==
    \/ handle_proxy_messages
    \/ Manager_run
    \/ update_configs_retain
    \/ update_configs_count_removed
    \/ update_configs_apply
    \/ update_configs_count_added
    \/ \E o \in 1..Len(mon) : \E t \in 1..Len(mon[o].tasks) : \E status \in Statuses :
          process_result_stats(o, t, status)
    \/ \E o \in 1..Len(mon) : \E t \in 1..Len(mon[o].tasks) : process_result_is_up(o, t)
    \/ monitor_task_tick
    \/ monitor_task_update_monitor_count
    \/ monitor_task_iter
    \/ monitor_task_is_healthy
    \/ monitor_task_get_stats
    \/ monitor_task_process
    \/ monitor_task_send

\* The health-check server by itself
InitManager == InitHc /\ VrrpIdle

SpecHc == InitManager /\ [][NextHc]_vars

\* The manager task, the poller and the probing tasks are tokio tasks, each
\* scheduled again whenever it can run
ManagerTask ==
    \/ Manager_run
    \/ update_configs_retain
    \/ update_configs_count_removed
    \/ update_configs_apply
    \/ update_configs_count_added

PollerTask ==
    \/ monitor_task_tick
    \/ monitor_task_update_monitor_count
    \/ monitor_task_iter
    \/ monitor_task_is_healthy
    \/ monitor_task_get_stats
    \/ monitor_task_process
    \/ monitor_task_send

ProbingTasks ==
    \E o \in 1..Len(mon) : \E t \in 1..Len(mon[o].tasks) :
        \/ \E status \in Statuses : process_result_stats(o, t, status)
        \/ process_result_is_up(o, t)

FairHc == WF_vars(ManagerTask) /\ WF_vars(PollerTask) /\ WF_vars(ProbingTasks)

SpecHcFair == SpecHc /\ FairHc

----------------------------------------------------------------------------
\* A monitor used on its own (the library use of the healthcheck crate):
\* HealthCheckMonitor::new(checker, config) and start(), no manager.

\* HealthCheckConfig values of such a monitor
MonitorConfigs ==
    [target : {<<"10.0.0.1", ":", "80">>}, rise : 1..MaxThreshold,
     fall : 1..MaxThreshold, check_type : {"tcp"}]

InitMonitor ==
    /\ \E monitor_config \in MonitorConfigs :
          mon = <<start(HealthCheckMonitor_new(monitor_config))>>
    /\ monitors = [i \in Ids |-> NoEntry]
    /\ config_rx = <<>>
    /\ updates_left = 0
    /\ mgr_pc = "recv"
    /\ mgr_cfgs = <<>>
    /\ new_ids = {}
    /\ api_calls = <<>>
    /\ NotifierIdle
    /\ monitor_count = 0
    /\ poll_len = 0
    /\ observed = [i \in Ids |-> 0]
    /\ NlaIdle
    /\ poll_pc = "tick"
    /\ poll_last = 0
    /\ poll_cur = NoSnapshot
    /\ snapshots = <<>>
    /\ notify_q = <<>>
    /\ checks_left = MaxChecks

NextMonitor ==
    \/ \E o \in 1..Len(mon) : \E t \in 1..Len(mon[o].tasks) : \E status \in Statuses :
          process_result_stats(o, t, status)
    \/ \E o \in 1..Len(mon) : \E t \in 1..Len(mon[o].tasks) : process_result_is_up(o, t)

InitMonitorAlone == InitMonitor /\ VrrpIdle

SpecMonitor == InitMonitorAlone /\ [][NextMonitor]_vars

----------------------------------------------------------------------------
\* A monitor whose owner calls start() and stop() as it likes (the handle of
\* healthcheck-ffi): HealthCheckMonitor::new, then any calls

InitOwned ==
    /\ \E monitor_config \in MonitorConfigs :
          mon = <<HealthCheckMonitor_new(monitor_config)>>
    /\ monitors = [i \in Ids |-> NoEntry]
    /\ config_rx = <<>>
    /\ updates_left = 0
    /\ mgr_pc = "recv"
    /\ mgr_cfgs = <<>>
    /\ new_ids = {}
    /\ api_calls = <<>>
    /\ NotifierIdle
    /\ monitor_count = 0
    /\ poll_len = 0
    /\ observed = [i \in Ids |-> 0]
    /\ NlaIdle
    /\ poll_pc = "tick"
    /\ poll_last = 0
    /\ poll_cur = NoSnapshot
    /\ snapshots = <<>>
    /\ notify_q = <<>>
    /\ checks_left = OwnerChecks

NextOwned ==
    \/ \E o \in 1..Len(mon) : healthcheck_start(o)
    \/ \E o \in 1..Len(mon) : healthcheck_stop(o)
    \/ \E o \in 1..Len(mon) : \E t \in 1..Len(mon[o].tasks) : \E status \in Statuses :
          process_result_stats(o, t, status)
    \/ \E o \in 1..Len(mon) : \E t \in 1..Len(mon[o].tasks) : process_result_is_up(o, t)
    \/ \E o \in 1..Len(mon) : \E t \in 1..Len(mon[o].tasks) : monitor_task_stop(o, t)

InitOwnedAlone == InitOwned /\ VrrpIdle

SpecOwned == InitOwnedAlone /\ [][NextOwned]_vars

(***************************************************************************)
(* Part III - health-check server: notifier and proxy endpoint             *)
(***************************************************************************)

\* What the notifier and the proxy endpoint never touch
managerVars == <<mon, monitors, config_rx, updates_left, mgr_pc, mgr_cfgs, new_ids,
                 api_calls, monitor_count, poll_pc, poll_last, poll_cur, snapshots,
                 checks_left>>

\* The largest value the model keeps of last_batch_time.elapsed()
ElapsedCap == 2 * BatchDelay + MaxLate + 1

\* Time passes by one unit; the notifier is never more than MaxLate behind a
\* tick of its timer
Elapse ==
    /\ batch_timer > 0 - MaxLate
    /\ batch_timer' = batch_timer - 1
    /\ last_batch_elapsed' = Min({last_batch_elapsed + 1, ElapsedCap})
    /\ batch_age' = IF batch = <<>> THEN 0 ELSE Min({batch_age + 1, ElapsedCap})
    /\ UNCHANGED <<ticks_skipped, produced, batch_size, ntf_pc, batch, to_proxy, proxy_pc, written,
                   notify_q, managerVars, inVars, pureVars, pollVars, nlVars, vrrpVars>>

\* The poller's notify_tx.send(notification).await for the next state change
\* it detects; the notifications are numbered in the order they are sent
poller_send ==
    /\ produced < MaxNotifications
    /\ Len(notify_q) < notify_capacity
    /\ notify_q' = Append(notify_q,
           [id |-> produced + 1, failures |-> 0, successes |-> 0,
            state |-> "Unhealthy", total |-> 0])
    /\ produced' = produced + 1
    /\ UNCHANGED <<batch_age, ticks_skipped, batch_size, ntf_pc, batch, batch_timer, last_batch_elapsed,
                   to_proxy, proxy_pc, written, managerVars, inVars, pureVars, pollVars, nlVars, vrrpVars>>

\* The receive branch as it would be if it flushed only a batch that exceeds
\* batch_size (a faulty variant, used to test C18)
Notifier_recv_flush_late ==
    /\ ntf_pc = "select"
    /\ notify_q # <<>>
    /\ batch' = Append(batch, Head(notify_q))
    /\ notify_q' = Tail(notify_q)
    /\ ntf_pc' = IF Len(batch') > batch_size THEN "send_size" ELSE "select"
    /\ UNCHANGED <<batch_age, ticks_skipped, produced, batch_size, batch_timer, last_batch_elapsed, to_proxy,
                   proxy_pc, written, managerVars, inVars, pureVars, pollVars, nlVars, vrrpVars>>

\* The receive branch as it would be if it put the notification at the front
\* of the batch (a faulty variant, used to test C19)
Notifier_recv_front ==
    /\ ntf_pc = "select"
    /\ notify_q # <<>>
    /\ batch' = <<Head(notify_q)>> \o batch
    /\ notify_q' = Tail(notify_q)
    /\ ntf_pc' = IF Len(batch') >= batch_size THEN "send_size" ELSE "select"
    /\ UNCHANGED <<batch_age, ticks_skipped, produced, batch_size, batch_timer, last_batch_elapsed, to_proxy,
                   proxy_pc, written, managerVars, inVars, pureVars, pollVars, nlVars, vrrpVars>>

\* run, select!: notify_rx.recv() returned a notification; batch.push, and
\* send_batch is entered when the batch has reached batch_size
Notifier_recv ==
    /\ ntf_pc = "select"
    /\ notify_q # <<>>
    /\ batch' = Append(batch, Head(notify_q))
    /\ notify_q' = Tail(notify_q)
    /\ ntf_pc' = IF Len(batch') >= batch_size THEN "send_size" ELSE "select"
    /\ UNCHANGED <<batch_age, ticks_skipped, produced, batch_size, batch_timer, last_batch_elapsed, to_proxy,
                   proxy_pc, written, managerVars, inVars, pureVars, pollVars, nlVars, vrrpVars>>

\* The timer branch as it would be if it flushed only a full batch (a faulty
\* variant, used to test C20)
Notifier_tick_full_only ==
    /\ ntf_pc = "select"
    /\ batch_timer <= 0
    /\ batch_timer' = batch_timer + BatchDelay
    /\ ticks_skipped' =
          IF batch # <<>> /\ batch_timer + batch_age >= 0 /\ ~(Len(batch) >= batch_size /\ last_batch_elapsed >= BatchDelay)
            THEN Min({ticks_skipped + 1, 2}) ELSE ticks_skipped
    /\ ntf_pc' = IF Len(batch) >= batch_size /\ last_batch_elapsed >= BatchDelay
                   THEN "send_delay" ELSE "select"
    /\ UNCHANGED <<batch_age, produced, batch_size, batch, last_batch_elapsed, to_proxy,
                   proxy_pc, written, notify_q, managerVars, inVars, pureVars, pollVars, nlVars, vrrpVars>>

\* run, select!: batch_timer.tick() returned; the next tick is due one period
\* after the deadline of this one (MissedTickBehavior::Burst); send_batch is
\* entered when the batch is not empty and batch_delay has elapsed
Notifier_tick ==
    /\ ntf_pc = "select"
    /\ batch_timer <= 0
    /\ batch_timer' = batch_timer + BatchDelay
    /\ ticks_skipped' =
          IF batch # <<>> /\ batch_timer + batch_age >= 0 /\ ~(batch # <<>> /\ last_batch_elapsed >= BatchDelay)
            THEN Min({ticks_skipped + 1, 2}) ELSE ticks_skipped
    /\ ntf_pc' = IF batch # <<>> /\ last_batch_elapsed >= BatchDelay
                   THEN "send_delay" ELSE "select"
    /\ UNCHANGED <<batch_age, produced, batch_size, batch, last_batch_elapsed, to_proxy,
                   proxy_pc, written, notify_q, managerVars, inVars, pureVars, pollVars, nlVars, vrrpVars>>

\* send_batch: proxy_tx.send(msg).await returned, Ok when the channel took the
\* message and Err when the proxy task has dropped the receiver; batch.clear();
\* back in run: last_batch_time = now, and batch_timer.reset() after a flush
\* by size
Notifier_send_batch ==
    /\ ntf_pc \in {"send_size", "send_delay"}
    /\ IF proxy_pc = "done"
         THEN UNCHANGED to_proxy
         ELSE /\ Len(to_proxy) < to_proxy_capacity
              /\ to_proxy' = Append(to_proxy, batch)
    /\ batch' = <<>>
    /\ batch_age' = 0
    /\ ticks_skipped' = 0
    /\ last_batch_elapsed' = 0
    /\ batch_timer' = IF ntf_pc = "send_size" THEN BatchDelay ELSE batch_timer
    /\ ntf_pc' = "select"
    /\ UNCHANGED <<produced, batch_size, proxy_pc, written, notify_q, managerVars,
                   inVars, pureVars, pollVars, nlVars, vrrpVars>>

\* The proxy endpoint as it would be if it served the outbound queue before
\* it greeted the control agent (a faulty variant, used to test C21)
proxy_accept_drains_first ==
    /\ proxy_pc = "accept"
    /\ IF to_proxy = <<>>
         THEN written' = Append(written, [type |-> "ready"]) /\ UNCHANGED to_proxy
         ELSE /\ written' = written \o
                    <<[type |-> "notification_batch", notifications |-> Head(to_proxy)],
                      [type |-> "ready"]>>
              /\ to_proxy' = Tail(to_proxy)
    /\ proxy_pc' = "loop"
    /\ UNCHANGED <<batch_age, ticks_skipped, produced, batch_size, ntf_pc, batch,
                   batch_timer, last_batch_elapsed, notify_q, managerVars, inVars, pureVars, pollVars, nlVars, vrrpVars>>

\* ProxyComm::run: listener.accept() returned; handle_connection writes the
\* Ready line
proxy_accept ==
    /\ proxy_pc = "accept"
    /\ written' = Append(written, [type |-> "ready"])
    /\ proxy_pc' = "loop"
    /\ UNCHANGED <<batch_age, ticks_skipped, produced, batch_size, ntf_pc, batch, batch_timer, last_batch_elapsed,
                   to_proxy, notify_q, managerVars, inVars, pureVars, pollVars, nlVars, vrrpVars>>

\* handle_connection, select!: to_proxy_rx.recv() returned a message, which is
\* serialised and written as one line.  The read_line future of this select!
\* is dropped with the bytes it has gathered: read_line moves the contents of
\* the String into the future while it is pending.
proxy_write ==
    /\ proxy_pc = "loop"
    /\ to_proxy # <<>>
    /\ written' = Append(written, [type |-> "notification_batch",
                                   notifications |-> Head(to_proxy)])
    /\ to_proxy' = Tail(to_proxy)
    /\ line' = <<>>
    /\ UNCHANGED <<batch_age, ticks_skipped, produced, batch_size, ntf_pc, batch, batch_timer, last_batch_elapsed,
                   proxy_pc, notify_q, managerVars, agent_out, agent_sent, sock_in,
                   proxy_msg, from_proxy, hpm_pc, hpm_msg, forwarded, pureVars, pollVars, nlVars, vrrpVars>>

\* handle_connection, select!: read_line returned Ok(0), the control agent
\* closed the connection; run returns and the receiver is dropped with what
\* the channel holds
proxy_disconnect ==
    /\ proxy_pc = "loop"
    /\ sock_in # <<>> /\ Head(sock_in) = "EOF"
    /\ line = <<>>
    /\ proxy_pc' = "done"
    /\ to_proxy' = <<>>
    /\ UNCHANGED <<batch_age, ticks_skipped, produced, batch_size, ntf_pc, batch, batch_timer, last_batch_elapsed,
                   written, notify_q, managerVars, inVars, pureVars, pollVars, nlVars, vrrpVars>>

----------------------------------------------------------------------------
\* The inbound half of the connection: ProxyComm::handle_connection reading
\* lines, and Server::handle_proxy_messages

\* The bodies of the lines the control agent sends: the three messages of
\* ProxyToServerMsg, UpdateConfigs with either of two lists, and a body that
\* is no ProxyToServerMsg
Bodies == {"request_status", "shutdown", "update_configs:a", "update_configs:b",
           "bogus"}

\* One line of the control agent: a JSON object and the newline
Line(body) == <<"{", body, "}", "\n">>

\* str::trim on a line as read_line returns it
trim(l) == IF l # <<>> /\ l[Len(l)] = "\n" THEN SubSeq(l, 1, Len(l) - 1) ELSE l

\* serde_json::from_str::<ProxyToServerMsg>: NoMsg stands for Err
from_str(l) ==
    IF Len(l) = 3 /\ l[1] = "{" /\ l[3] = "}"
    THEN CASE l[2] = "request_status" -> [type |-> "request_status"]
           [] l[2] = "shutdown" -> [type |-> "shutdown"]
           [] l[2] = "update_configs:a" ->
                  [type |-> "update_configs",
                   configs |-> <<HealthcheckConfig(1, 0, "10.0.0.1")>>]
           [] l[2] = "update_configs:b" ->
                  [type |-> "update_configs",
                   configs |-> <<HealthcheckConfig(1, 2, "10.0.0.1")>>]
           [] l[2] = "update_configs:c" ->
                  [type |-> "update_configs",
                   configs |-> <<HealthcheckConfig(1, 0, "10.0.0.1"),
                                 HealthcheckConfig(2, 1, "10.0.0.2")>>]
           [] l[2] = "update_configs:none" ->
                  [type |-> "update_configs", configs |-> <<>>]
           [] OTHER -> NoMsg
    ELSE NoMsg

\* The texts the control agent sends: up to MaxLines lines, after which it
\* closes its end or keeps the connection open
RECURSIVE Texts(_)
Texts(n) ==
    IF n = 0 THEN {<<>>}
    ELSE Texts(n - 1) \cup
         UNION {{Line(b) \o t : b \in Bodies} : t \in {u \in Texts(n - 1) : Len(u) = 4 * (n - 1)}}

AgentTexts == UNION {{t, t \o <<"EOF">>} : t \in Texts(MaxLines) \ {<<>>}}

\* The control agent writes; the socket delivers any number of the bytes
agent_send ==
    /\ agent_out # <<>>
    /\ \E k \in 1..Len(agent_out) :
          /\ sock_in' = sock_in \o SubSeq(agent_out, 1, k)
          /\ agent_sent' = agent_sent \o SubSeq(agent_out, 1, k)
          /\ agent_out' = SubSeq(agent_out, k + 1, Len(agent_out))
    /\ UNCHANGED <<line, proxy_msg, from_proxy, hpm_pc, hpm_msg, forwarded, ntfVars,
                   notify_q, managerVars, pureVars, pollVars, nlVars, vrrpVars>>

\* Where the first newline or the end of the stream is in s, 0 if nowhere
line_end(s) ==
    IF \E k \in 1..Len(s) : s[k] \in {"\n", "EOF"}
    THEN Min({k \in 1..Len(s) : s[k] \in {"\n", "EOF"}})
    ELSE 0

\* handle_connection, select!: read_line is polled with bytes to read.  With
\* no newline among them it keeps them and stays pending; with one it returns
\* Ok(n), the line is decoded and line.clear() is called.
proxy_read ==
    /\ proxy_pc = "loop"
    /\ sock_in # <<>>
    /\ ~(Head(sock_in) = "EOF" /\ line = <<>>)
    /\ LET n == line_end(sock_in)
           got == IF n = 0 THEN sock_in
                  ELSE IF sock_in[n] = "\n" THEN SubSeq(sock_in, 1, n)
                  ELSE SubSeq(sock_in, 1, n - 1)
           rest == SubSeq(sock_in, Len(got) + 1, Len(sock_in))
           msg == from_str(trim(line \o got))
       IN  /\ sock_in' = rest
           /\ IF n = 0
                THEN line' = line \o got /\ UNCHANGED <<proxy_pc, proxy_msg>>
                ELSE /\ line' = <<>>
                     /\ proxy_msg' = msg
                     /\ proxy_pc' = IF msg = NoMsg THEN "loop" ELSE "send"
    /\ UNCHANGED <<agent_out, agent_sent, from_proxy, hpm_pc, hpm_msg, forwarded,
                   batch_age, ticks_skipped, produced, batch_size, ntf_pc, batch,
                   batch_timer, last_batch_elapsed, to_proxy, written, notify_q,
                   managerVars, pureVars, pollVars, nlVars, vrrpVars>>

\* The forwarding as it would be if the proxy task forwarded a message only
\* once its outbound queue were empty (a faulty variant, used to test C40)
proxy_forward_after_drain ==
    /\ to_proxy = <<>>
    /\ proxy_pc = "send"
    /\ IF hpm_pc = "done"
         THEN UNCHANGED <<from_proxy, forwarded>>
         ELSE /\ Len(from_proxy) < from_proxy_capacity
              /\ from_proxy' = Append(from_proxy, proxy_msg)
              /\ forwarded' = Append(forwarded, proxy_msg)
    /\ proxy_msg' = NoMsg
    /\ proxy_pc' = "loop"
    /\ UNCHANGED <<agent_out, agent_sent, sock_in, line, hpm_pc, hpm_msg,
                   batch_age, ticks_skipped, produced, batch_size, ntf_pc, batch,
                   batch_timer, last_batch_elapsed, to_proxy, written, notify_q,
                   managerVars, pureVars, pollVars, nlVars, vrrpVars>>

\* handle_connection: self.from_proxy_tx.send(msg).await returned, with Err
\* when the receiver is gone
proxy_forward ==
    /\ proxy_pc = "send"
    /\ IF hpm_pc = "done"
         THEN UNCHANGED <<from_proxy, forwarded>>
         ELSE /\ Len(from_proxy) < from_proxy_capacity
              /\ from_proxy' = Append(from_proxy, proxy_msg)
              /\ forwarded' = Append(forwarded, proxy_msg)
    /\ proxy_msg' = NoMsg
    /\ proxy_pc' = "loop"
    /\ UNCHANGED <<agent_out, agent_sent, sock_in, line, hpm_pc, hpm_msg,
                   batch_age, ticks_skipped, produced, batch_size, ntf_pc, batch,
                   batch_timer, last_batch_elapsed, to_proxy, written, notify_q,
                   managerVars, pureVars, pollVars, nlVars, vrrpVars>>

\* The receive as it would be if Shutdown did not end the loop (a faulty
\* variant, used to test C39)
handle_proxy_messages_recv_no_break ==
    /\ hpm_pc = "recv"
    /\ from_proxy # <<>> \/ proxy_pc = "done"
    /\ IF from_proxy = <<>>
         THEN hpm_pc' = "done" /\ UNCHANGED <<from_proxy, hpm_msg>>
         ELSE /\ from_proxy' = Tail(from_proxy)
              /\ CASE Head(from_proxy).type = "update_configs" ->
                          hpm_pc' = "send" /\ hpm_msg' = Head(from_proxy)
                   [] Head(from_proxy).type = "request_status" ->
                          UNCHANGED <<hpm_pc, hpm_msg>>
                   [] Head(from_proxy).type = "shutdown" ->
                          UNCHANGED <<hpm_pc, hpm_msg>>
    /\ UNCHANGED <<agent_out, agent_sent, sock_in, line, proxy_msg, forwarded,
                   ntfVars, notify_q, managerVars, pureVars, pollVars, nlVars, vrrpVars>>

\* Server::handle_proxy_messages: from_proxy_rx.recv().await returned
handle_proxy_messages_recv ==
    /\ hpm_pc = "recv"
    /\ from_proxy # <<>> \/ proxy_pc = "done"
    /\ IF from_proxy = <<>>
         THEN hpm_pc' = "done" /\ UNCHANGED <<from_proxy, hpm_msg>>
         ELSE /\ from_proxy' = Tail(from_proxy)
              /\ CASE Head(from_proxy).type = "update_configs" ->
                          hpm_pc' = "send" /\ hpm_msg' = Head(from_proxy)
                   [] Head(from_proxy).type = "request_status" ->
                          UNCHANGED <<hpm_pc, hpm_msg>>
                   [] Head(from_proxy).type = "shutdown" ->
                          hpm_pc' = "done" /\ UNCHANGED hpm_msg
    /\ UNCHANGED <<agent_out, agent_sent, sock_in, line, proxy_msg, forwarded,
                   ntfVars, notify_q, managerVars, pureVars, pollVars, nlVars, vrrpVars>>

\* Server::handle_proxy_messages, UpdateConfigs arm: config_tx.send(configs)
\* returned
handle_proxy_messages_send ==
    /\ hpm_pc = "send"
    /\ Len(config_rx) < config_capacity
    /\ config_rx' = Append(config_rx, hpm_msg.configs)
    /\ hpm_msg' = NoMsg
    /\ hpm_pc' = "recv"
    /\ UNCHANGED <<agent_out, agent_sent, sock_in, line, proxy_msg, from_proxy,
                   forwarded, ntfVars, notify_q, mon, monitors, updates_left, mgr_pc,
                   mgr_cfgs, new_ids, api_calls, monitor_count, poll_pc, poll_last,
                   poll_cur, snapshots, checks_left, pureVars, pollVars, nlVars, vrrpVars>>

NextNotifier ==
    \/ Elapse
    \/ poller_send
    \/ Notifier_recv
    \/ Notifier_tick
    \/ Notifier_send_batch
    \/ proxy_accept
    \/ proxy_write
    \/ proxy_disconnect

\* The server with its manager idle: no monitors, and the notifications of the
\* poller arriving as poller_send gives them
InitPipeline ==
    /\ InitNotifier
    /\ mon = <<>>
    /\ monitors = [i \in Ids |-> NoEntry]
    /\ config_rx = <<>>
    /\ updates_left = 0
    /\ mgr_pc = "recv"
    /\ mgr_cfgs = <<>>
    /\ new_ids = {}
    /\ api_calls = <<>>
    /\ monitor_count = 0
    /\ poll_len = 0
    /\ observed = [i \in Ids |-> 0]
    /\ NlaIdle
    /\ poll_pc = "tick"
    /\ poll_last = 0
    /\ poll_cur = NoSnapshot
    /\ snapshots = <<>>
    /\ notify_q = <<>>
    /\ checks_left = 0
    /\ VrrpIdle

SpecNotifier == InitPipeline /\ [][NextNotifier]_vars

\* Time passes; the notifier and the proxy endpoint are tokio tasks, scheduled
\* again whenever they can run, and the control agent connects
NotifierTask == Notifier_recv \/ Notifier_tick \/ Notifier_send_batch

ProxyTask == proxy_accept \/ proxy_write

FairNotifier == WF_vars(Elapse) /\ WF_vars(NotifierTask) /\ WF_vars(ProxyTask)

SpecNotifierFair == SpecNotifier /\ FairNotifier

\* The proxy endpoint with a control agent that sends lines, the notifier
\* flushing every notification as a batch of its own, the manager idle
InitProxy ==
    /\ produced = 0
    /\ batch_size = 1
    /\ ntf_pc = "select"
    /\ batch = <<>>
    /\ batch_age = 0
    /\ ticks_skipped = 0
    /\ last_batch_elapsed = 0
    /\ batch_timer = BatchDelay
    /\ to_proxy = <<>>
    /\ proxy_pc = "accept"
    /\ written = <<>>
    /\ agent_out \in AgentTexts
    /\ agent_sent = <<>>
    /\ sock_in = <<>>
    /\ line = <<>>
    /\ proxy_msg = NoMsg
    /\ from_proxy = <<>>
    /\ hpm_pc = "recv"
    /\ hpm_msg = NoMsg
    /\ forwarded = <<>>
    /\ PureIdle
    /\ mon = <<>>
    /\ monitors = [i \in Ids |-> NoEntry]
    /\ config_rx = <<>>
    /\ updates_left = 0
    /\ mgr_pc = "recv"
    /\ mgr_cfgs = <<>>
    /\ new_ids = {}
    /\ api_calls = <<>>
    /\ monitor_count = 0
    /\ poll_len = 0
    /\ observed = [i \in Ids |-> 0]
    /\ NlaIdle
    /\ poll_pc = "tick"
    /\ poll_last = 0
    /\ poll_cur = NoSnapshot
    /\ snapshots = <<>>
    /\ notify_q = <<>>
    /\ checks_left = 0
    /\ VrrpIdle

NextProxy ==
    \/ agent_send
    \/ proxy_accept
    \/ proxy_read
    \/ proxy_forward
    \/ proxy_write
    \/ proxy_disconnect
    \/ handle_proxy_messages_recv
    \/ handle_proxy_messages_send
    \/ poller_send
    \/ Notifier_recv
    \/ Notifier_send_batch

SpecProxy == InitProxy /\ [][NextProxy]_vars


----------------------------------------------------------------------------
\* Properties of the health-check engine

\* C8: the up flag of a monitor changes from down to up only in a step in
\* which its consecutive_successes is at least rise, and from up to down only
\* in a step in which its consecutive_failures is at least fall; the flag
\* starts down and changes in no step other than the hysteresis step of
\* process_result.
C8_Hysteresis ==
    /\ [](\A o \in 1..Len(mon) : mon[o].stats.total_checks = 0 => ~mon[o].is_up)
    /\ [][\A o \in 1..Len(mon) :
            mon'[o].is_up # mon[o].is_up =>
              /\ \E t \in 1..Len(mon[o].tasks) : mon[o].tasks[t].pc = "is_up"
              /\ mon'[o].stats = mon[o].stats
              /\ IF mon'[o].is_up
                   THEN mon[o].stats.consecutive_successes >= mon[o].config.rise
                   ELSE mon[o].stats.consecutive_failures >= mon[o].config.fall
         ]_vars

\* C8 witness: a monitor with rise 2 and fall 3 that went up after two
\* successes and down again after three failures.
C8_Witness ==
    \E o \in 1..Len(mon) :
        /\ mon[o].config.rise = 2
        /\ mon[o].config.fall = 3
        /\ \A t \in 1..Len(mon[o].tasks) : mon[o].tasks[t].pc = "select"
        /\ ~mon[o].is_up
        /\ mon[o].stats.total_checks = 5
        /\ mon[o].stats.successful_checks = 2
        /\ mon[o].stats.consecutive_failures = 3

\* What a Notification shows of failures: the checks that did not succeed
Unsuccessful(n) == n.total - n.successes

\* The thresholds configurations give the monitor of an id
Thresholds(id) ==
    UNION {{to_monitor_config(l[k]) : k \in {j \in 1..Len(l) : l[j].id = id}} :
             l \in ConfigLists}

\* C9: every Notification the poller has emitted respects the thresholds: an
\* Unhealthy one shows at least fall checks that did not succeed, a Healthy one
\* at least rise successful checks (fall and rise of a configuration of its id).
C9_NotificationsRespectThresholds ==
    \A k \in 1..Len(notify_q) :
        LET n == notify_q[k]
        IN \E t \in Thresholds(n.id) :
              /\ n.state = "Unhealthy" => Unsuccessful(n) >= t.fall
              /\ n.state = "Healthy" => n.successes >= t.rise

\* C10: the stats of every monitor satisfy
\* total_checks = successful_checks + failed_checks + timeouts.
C10_TotalIsSum ==
    \A o \in 1..Len(mon) :
        mon[o].stats.total_checks =
            mon[o].stats.successful_checks + mon[o].stats.failed_checks
              + mon[o].stats.timeouts

\* C10 witness: a monitor whose stats have counted a success, two failures
\* (an Unhealthy and an Error result) and a timeout.
C10_Witness ==
    \E o \in 1..Len(mon) :
        /\ mon[o].stats.successful_checks = 1
        /\ mon[o].stats.failed_checks = 2
        /\ mon[o].stats.timeouts = 1
        /\ mon[o].stats.total_checks = 4

\* C11: the two streaks of a monitor's stats are never both non-zero; a
\* result counted as a success sets the failure streak to 0 and extends the
\* success streak by one, a result counted as a failure or a timeout sets the
\* success streak to 0 and extends the failure streak by one.
C11_StreaksExclusive ==
    /\ [](\A o \in 1..Len(mon) :
            ~(mon[o].stats.consecutive_successes > 0
                /\ mon[o].stats.consecutive_failures > 0))
    /\ [][\A o \in 1..Len(mon) :
            LET a == mon[o].stats
                b == mon'[o].stats
            IN /\ b.successful_checks # a.successful_checks =>
                    /\ b.consecutive_failures = 0
                    /\ b.consecutive_successes = a.consecutive_successes + 1
               /\ (b.failed_checks # a.failed_checks \/ b.timeouts # a.timeouts) =>
                    /\ b.consecutive_successes = 0
                    /\ b.consecutive_failures = a.consecutive_failures + 1
         ]_vars

\* C11 witness: a success streak of two was cut by a timeout and an error.
C11_Witness ==
    \E o \in 1..Len(mon) :
        /\ mon[o].stats.successful_checks = 2
        /\ mon[o].stats.timeouts = 1
        /\ mon[o].stats.failed_checks = 1
        /\ mon[o].stats.consecutive_successes = 0
        /\ mon[o].stats.consecutive_failures = 2

\* The state of the last Notification on the channel for an id, "none" when
\* there is none
LastNotified(i) ==
    LET at == {k \in 1..Len(notify_q) : notify_q[k].id = i}
    IN IF at = {} THEN "none"
       ELSE notify_q[CHOOSE k \in at : \A m \in at : m <= k].state

\* C12 as stated: two Notifications for the same id with no Notification for
\* that id between them never carry the same state.
C12_NeverSameStateTwice ==
    \A j \in 1..Len(notify_q) : \A k \in 1..Len(notify_q) :
        (/\ j < k
         /\ notify_q[j].id = notify_q[k].id
         /\ \A m \in (j + 1)..(k - 1) : notify_q[m].id # notify_q[j].id)
        => notify_q[j].state # notify_q[k].state

\* C12: a Notification is emitted only with a state that differs from the
\* last_state its snapshot read; the last_state of an entry changes only in
\* the poller's step for a snapshot of its id, to the state derived from that
\* snapshot, and does change there when the derived state differs; and the
\* last_state of an entry, once it left Unknown, is the state of the last
\* Notification emitted for its id (outside the moment between the entry
\* update and the send).  So as long as the entry of an id stays in the map,
\* consecutive Notifications for the id differ in state.
C12_NoRepeatWhileEntryStays ==
    /\ [][(poll_pc = "send" /\ poll_pc' # poll_pc) =>
            LET n == notify_q'[Len(notify_q')]
            IN /\ notify_q' = Append(notify_q, n)
               /\ n.id = Head(snapshots).id
               /\ n.state # Head(snapshots).last_state]_vars
    /\ [][\A i \in Ids :
            (/\ monitors[i].present
             /\ monitors'[i].present
             /\ monitors'[i].last_state # monitors[i].last_state)
            => /\ poll_pc = "process"
               /\ poll_pc' = "send"
               /\ Head(snapshots).id = i
               /\ monitors'[i].last_state = new_state(Head(snapshots))]_vars
    /\ [][(poll_pc = "process" /\ poll_pc' = "send"
            /\ monitors[Head(snapshots).id].present)
           => monitors'[Head(snapshots).id].last_state = new_state(Head(snapshots))]_vars
    /\ [](\A i \in Ids :
            (/\ monitors[i].present
             /\ monitors[i].last_state # "Unknown"
             /\ ~(poll_pc = "send" /\ Head(snapshots).id = i))
            => LastNotified(i) = monitors[i].last_state)

\* C12 witness: the poller reported id 1 Unhealthy and then Healthy, and the
\* entry of id 1 records Healthy.
C12_Witness ==
    /\ Len(notify_q) = 2
    /\ notify_q[1].id = 1 /\ notify_q[1].state = "Unhealthy"
    /\ notify_q[2].id = 1 /\ notify_q[2].state = "Healthy"
    /\ monitors[1].present
    /\ monitors[1].last_state = "Healthy"
    /\ poll_pc = "tick"

\* C13: when update_configs has applied a list, the ids in the map are
\* exactly the ids of that list.
C13_UpdateAuthoritative ==
    [][(mgr_pc = "apply" /\ mgr_pc' = "recv") => PresentIds' = new_ids]_vars

\* The monitors of ids that have no entry in the map: every id has an
\* address of its own, so the target of a monitor tells its id
RemovedMonitors ==
    {o \in 1..Len(mon) :
        \A i \in PresentIds : monitors[i].config.ip # mon[o].config.target[1]}

\* C14: when update_configs removes the entry of an id its list omits, the
\* probing tasks of the monitors of removed ids eventually terminate.
C14_RemovedTaskStops ==
    (mgr_pc = "retain" /\ PresentIds \ new_ids # {})
    ~> (/\ mgr_pc # "retain"
        /\ \A o \in RemovedMonitors :
              \A t \in 1..Len(mon[o].tasks) : mon[o].tasks[t].pc = "stopped")

\* C15: the poller enqueues a Notification for an id only while the id has
\* an entry in the map; none is enqueued for an id the manager has removed,
\* whenever the pass took its snapshot.
C15_NoNotificationAfterRemoval ==
    [][(poll_pc = "send" /\ poll_pc' # poll_pc)
       => monitors[Head(snapshots).id].present]_vars

\* The suspension points of the poller: interval.tick().await,
\* is_healthy().await, get_stats().await and notify_tx.send(..).await
PollerSuspended == poll_pc \in {"tick", "is_healthy", "get_stats", "send"}

\* C16: the poller holds no lock of the map, neither an iteration guard nor
\* an entry guard, at any of its suspension points.
C16_NoMapLockAcrossAwait == PollerSuspended => iter_guard = 0

\* The probing tasks of a monitor that have not terminated
LiveTasks(o) == {t \in 1..Len(mon[o].tasks) : mon[o].tasks[t].pc # "stopped"}

\* C17: a monitor has at most one live probing task whatever calls of start()
\* and stop() were made, and exactly one when the last call was start()
\* (a second start() creates no second task, and a stop() made when no task
\* was waiting does not cancel a task started later).
C17_StartStopIdempotent ==
    \A o \in 1..Len(mon) :
        /\ Cardinality(LiveTasks(o)) <= 1
        /\ (api_calls # <<>> /\ api_calls[Len(api_calls)] = "start")
              => Cardinality(LiveTasks(o)) = 1

\* The batches the notifier has sent: those written to the socket, then those
\* still in the channel to the proxy task
WrittenBatches ==
    LET at == {k \in 1..Len(written) : written[k].type = "notification_batch"}
        nth(n) == CHOOSE k \in at : Cardinality({j \in at : j <= k}) = n
    IN [n \in 1..Cardinality(at) |-> written[nth(n)].notifications]

\* C18: every batch the notifier sends holds at least one and at most
\* batch_size notifications, the pending batch never exceeds batch_size, and
\* a pending batch that has reached batch_size is in send_batch, where the
\* notifier accepts no further notification.
C18_BatchSizeBounds ==
    /\ \A k \in 1..Len(to_proxy) :
          Len(to_proxy[k]) >= 1 /\ Len(to_proxy[k]) <= batch_size
    /\ \A k \in 1..Len(WrittenBatches) :
          Len(WrittenBatches[k]) >= 1 /\ Len(WrittenBatches[k]) <= batch_size
    /\ Len(batch) <= batch_size
    /\ Len(batch) = batch_size => ntf_pc = "send_size"

\* C18 witness: with batch_size 2 the proxy wrote a full batch and then a
\* batch of one notification, flushed by the timer.
C18_Witness ==
    /\ batch_size = 2
    /\ Len(WrittenBatches) = 2
    /\ Len(WrittenBatches[1]) = 2
    /\ Len(WrittenBatches[2]) = 1

\* The notifications of a sequence of batches, in order
RECURSIVE Concat(_)
Concat(batches) ==
    IF batches = <<>> THEN <<>> ELSE Head(batches) \o Concat(Tail(batches))

\* C19: the notifications of all batches written to the proxy socket, in
\* write order, are the first notifications put on the notification channel,
\* in the order they were put there: none missing, none repeated.
C19_WrittenIsPrefix ==
    LET out == Concat(WrittenBatches)
    IN /\ Len(out) <= produced
       /\ \A k \in 1..Len(out) : out[k].id = k

\* C19 witness: four notifications were written in three batches.
C19_Witness ==
    /\ Len(WrittenBatches) = 3
    /\ Len(Concat(WrittenBatches)) = 4

\* The numbers of the notifications in a sequence of notifications
NumbersIn(q) == {q[k].id : k \in 1..Len(q)}

\* C20: a tick of the batch timer handled while the batch is not empty and
\* batch_delay has elapsed since the last flush puts the notifier in
\* send_batch, which hands the whole batch to the proxy channel and clears
\* it; a tick is always due within one period, and of the ticks that come
\* due while the batch is pending at most one passes without a flush (the
\* second flushes at the latest); and under fair scheduling every notification accepted into the
\* batch leaves it in such a flush, whether batch_size is reached or not.
C20_DelayFlush ==
    /\ [][(ntf_pc = "select" /\ batch_timer' > batch_timer
           /\ batch # <<>> /\ last_batch_elapsed >= BatchDelay)
          => (ntf_pc' = "send_delay" /\ batch' = batch)]_vars
    /\ [][(ntf_pc \in {"send_size", "send_delay"} /\ ntf_pc' # ntf_pc)
          => /\ batch' = <<>>
             /\ proxy_pc = "done" \/ to_proxy' = Append(to_proxy, batch)]_vars
    /\ [][batch' # batch
          => \/ ntf_pc \in {"send_size", "send_delay"}
             \/ \E n \in NumbersIn(notify_q) : NumbersIn(batch') = NumbersIn(batch) \cup {n}]_vars
    /\ [](batch_timer <= BatchDelay)
    /\ [](ticks_skipped <= 1)
    /\ \A n \in 1..MaxNotifications :
          (n \in NumbersIn(batch)) ~> (n \notin NumbersIn(batch))

\* C20 witness: with batch_size 3, a batch of one notification that one tick
\* passed over is flushed by the next tick.
C20_Witness ==
    /\ batch_size = 3
    /\ Len(batch) = 1
    /\ ticks_skipped = 1
    /\ ntf_pc = "send_delay"

\* C21: the first line written to the proxy socket is the Ready message, and
\* it is written by the step that accepts the connection; a message that was
\* waiting in the outbound channel at that moment stays there and is written
\* after it.
C21_ReadyFirst ==
    /\ [](written # <<>> => written[1].type = "ready")
    /\ [][(proxy_pc = "accept" /\ proxy_pc' # proxy_pc)
          => (written' = <<[type |-> "ready"]>> /\ to_proxy' = to_proxy)]_vars
    /\ [][written' # written
          => (proxy_pc = "accept" \/ written'[Len(written')].type # "ready")]_vars

\* C21 witness: a batch was waiting in the outbound channel when the agent
\* connected; Ready is the only line written so far.
C21_Witness ==
    /\ proxy_pc = "loop"
    /\ written = <<[type |-> "ready"]>>
    /\ to_proxy # <<>>
    /\ ntf_pc \in {"send_size", "send_delay"}

\* The messages the lines of a text decode to, in the order of the lines
RECURSIVE Decoded(_)
Decoded(text) ==
    IF text = <<>> \/ Head(text) = "EOF" \/ line_end(text) = 0 THEN <<>>
    ELSE LET n == line_end(text)
             msg == from_str(trim(SubSeq(text, 1, n)))
             others == Decoded(SubSeq(text, n + 1, Len(text)))
         IN  IF msg = NoMsg THEN others ELSE <<msg>> \o others

\* The control agent has sent all it had to send and the proxy endpoint has
\* nothing left to read or to forward
InboundDrained ==
    /\ agent_out = <<>>
    /\ sock_in \in {<<>>, <<"EOF">>}
    /\ line = <<>>
    /\ proxy_pc \in {"loop", "done"}

\* C22: a line that does not decode leaves the connection open and forwards
\* nothing, the connection ends only at the end of the inbound stream, and
\* once all lines of the control agent are read the messages forwarded are
\* its well-formed lines, in the order received (as long as none of them
\* asked the server to shut down).
C22_MalformedLineDropped ==
    /\ [][(proxy_pc = "loop" /\ proxy_pc' = "done")
          => (Head(sock_in) = "EOF" /\ line = <<>>)]_vars
    /\ [][(proxy_pc = "loop" /\ sock_in' # sock_in /\ proxy_pc' = "loop"
            /\ agent_out' = agent_out)
          => forwarded' = forwarded]_vars
    /\ []((InboundDrained
            /\ \A k \in 1..Len(Decoded(agent_sent)) :
                   Decoded(agent_sent)[k].type # "shutdown")
          => forwarded = Decoded(agent_sent))

\* A well-formed line was forwarded after a line that does not decode
C22_Witness ==
    /\ InboundDrained
    /\ agent_sent = Line("bogus") \o Line("request_status")
    /\ forwarded = <<[type |-> "request_status"]>>

----------------------------------------------------------------------------
\* The VRRP packet codec (packet.rs) and the timer arithmetic (types.rs)

\* An IpAddr: its family and its octets
Ipv4Addr(a, b, c, d) == [fam |-> 4, octets |-> <<a, b, c, d>>]
Ipv6Addr(hi, lo) ==
    [fam |-> 6, octets |-> <<hi, 128, 0, 0, 0, 0, 0, 0, 0, 0, 0, 0, 0, 0, 1, lo>>]

\* u16::from_be_bytes and u16::to_be_bytes
from_be_bytes(hi, lo) == hi * 256 + lo
to_be_bytes(w) == <<w \div 256, w % 256>>

RECURSIVE octets_of(_)
octets_of(ips) ==
    IF ips = <<>> THEN <<>> ELSE Head(ips).octets \o octets_of(Tail(ips))

\* VRRPPacket::to_bytes
to_bytes(p) ==
    <<p.version_type, p.vrid, p.priority, p.count_ip>>
        \o to_be_bytes(p.max_advert_int) \o to_be_bytes(p.checksum)
        \o octets_of(p.ip_addresses)

\* parse: the addresses of `count` groups of `width` bytes from offset 8
addresses_at(data, count, width) ==
    [k \in 1..count |->
        [fam |-> IF width = 4 THEN 4 ELSE 6,
         octets |-> SubSeq(data, 8 + (k - 1) * width + 1, 8 + k * width)]]

\* VRRPPacket::parse as it would be if it read the checksum in the byte order
\* of the host (a faulty variant, used to test C23)
parse_le(data) ==
    [ok |-> TRUE,
     packet |-> [version_type |-> data[1], vrid |-> data[2], priority |-> data[3],
                 count_ip |-> data[4],
                 max_advert_int |-> from_be_bytes(data[5] % 16, data[6]),
                 checksum |-> from_be_bytes(data[8], data[7]),
                 ip_addresses |-> addresses_at(data, data[4],
                                     IF Len(data) = 8 + data[4] * 4 THEN 4 ELSE 16)]]

\* VRRPPacket::parse
parse(data) ==
    IF Len(data) < 8 THEN [ok |-> FALSE, err |-> "Packet too short"]
    ELSE IF data[1] \div 16 # VRRP_VERSION
    THEN [ok |-> FALSE, err |-> "Invalid VRRP version"]
    ELSE IF data[1] % 16 # VRRP_TYPE_ADVERTISEMENT
    THEN [ok |-> FALSE, err |-> "Invalid packet type"]
    ELSE IF Len(data) # 8 + data[4] * 4 /\ Len(data) # 8 + data[4] * 16
    THEN [ok |-> FALSE, err |-> "Invalid packet length"]
    ELSE [ok |-> TRUE,
          packet |-> [version_type |-> data[1], vrid |-> data[2],
                      priority |-> data[3], count_ip |-> data[4],
                      max_advert_int |-> from_be_bytes(data[5] % 16, data[6]),
                      checksum |-> from_be_bytes(data[7], data[8]),
                      ip_addresses |-> addresses_at(data, data[4],
                                          IF Len(data) = 8 + data[4] * 4
                                          THEN 4 ELSE 16)]]

\* The sum of the 16-bit words of s, a last odd byte padded with zero
RECURSIVE word_sum(_)
word_sum(s) ==
    IF s = <<>> THEN 0
    ELSE IF Len(s) = 1 THEN from_be_bytes(s[1], 0)
    ELSE from_be_bytes(s[1], s[2]) + word_sum(SubSeq(s, 3, Len(s)))

\* calculate_checksum: while sum >> 16 != 0 { sum = (sum & 0xFFFF) + (sum >> 16) }
RECURSIVE fold(_)
fold(sum) == IF sum \div 65536 = 0 THEN sum ELSE fold((sum % 65536) + (sum \div 65536))

\* VRRPPacket::calculate_checksum as it would be if it summed the packet from
\* its third byte on (a faulty variant, used to test C24)
calculate_checksum_from_priority(p, src_ip, dst_ip) ==
    LET packet_bytes == to_bytes(p)
    IN  IF src_ip.fam # dst_ip.fam THEN 0
        ELSE 65535 - fold((word_sum(src_ip.octets) + word_sum(dst_ip.octets)
                              + VRRP_PROTOCOL + Len(packet_bytes)
                              + word_sum(SubSeq(packet_bytes, 3, 6))
                              + word_sum(SubSeq(packet_bytes, 9, Len(packet_bytes)))))

\* VRRPPacket::calculate_checksum: the pseudo-header, then the packet without
\* its checksum field, in a u32, folded and complemented.  A packet has at most
\* 8 + 255 * 16 bytes, so the sum of its words stays below 2^32.
calculate_checksum(p, src_ip, dst_ip) ==
    LET packet_bytes == to_bytes(p)
    IN  IF src_ip.fam # dst_ip.fam THEN 0
        ELSE 65535 - fold((word_sum(src_ip.octets) + word_sum(dst_ip.octets)
                              + VRRP_PROTOCOL + Len(packet_bytes)
                              + word_sum(SubSeq(packet_bytes, 1, 6))
                              + word_sum(SubSeq(packet_bytes, 9, Len(packet_bytes)))))

\* VRRPPacket::verify_checksum
verify_checksum(p, src_ip, dst_ip) == calculate_checksum(p, src_ip, dst_ip) = p.checksum

\* VRRPPacket::new, with the checksum field given as well
VRRPPacket_new(vrid, priority, advert_interval, cksum, ips) ==
    [version_type |-> VRRP_VERSION * 16 + VRRP_TYPE_ADVERTISEMENT,
     vrid |-> vrid, priority |-> priority, count_ip |-> Len(ips),
     max_advert_int |-> advert_interval, checksum |-> cksum, ip_addresses |-> ips]

\* The address lists of the packets examined: none, one or two addresses of
\* one family
AddressLists ==
    { <<>>,
      <<Ipv4Addr(192, 168, 1, 1)>>,
      <<Ipv4Addr(192, 168, 1, 1), Ipv4Addr(10, 255, 0, 254)>>,
      <<Ipv6Addr(254, 1)>>,
      <<Ipv6Addr(254, 1), Ipv6Addr(32, 255)>> }

\* The well-formed packets examined
Packets ==
    {VRRPPacket_new(v, p, a, c, ips) :
        v \in {1, 255}, p \in {0, 100, 255}, a \in {1, 100, 4095},
        c \in {0, 43981}, ips \in AddressLists}

\* The source and destination of a datagram: one family
AddressPairs ==
    { <<Ipv4Addr(10, 0, 0, 1), Ipv4Addr(224, 0, 0, 18)>>,
      <<Ipv6Addr(254, 7), Ipv6Addr(255, 18)>> }

InitPacket ==
    /\ pk \in Packets
    /\ pk_ips \in AddressPairs
    /\ pk_sum = "unset"
    /\ pk_bytes = <<>>
    /\ pk_parsed = [ok |-> FALSE, err |-> "none"]
    /\ pk_valid = FALSE
    /\ pk_pc = "new"
    /\ intervals = [master_down |-> 0, advert |-> 0]
    /\ ipvs_args = <<>>
    /\ ipvs_calls = <<>>

\* packet.set_checksum(src_ip, dst_ip)
set_checksum ==
    /\ pk_pc = "new"
    /\ pk' = [pk EXCEPT !.checksum = calculate_checksum(pk, pk_ips[1], pk_ips[2])]
    /\ pk_sum' = "set"
    /\ pk_pc' = "set_checksum"
    /\ UNCHANGED <<pk_ips, pk_bytes, pk_parsed, pk_valid, intervals, ipvsVars, inVars,
                   ntfVars,
                   notify_q, managerVars, pollVars, nlVars, vrrpVars>>

\* One byte of the VRID, of the priority or of an address of the packet is
\* given another value
alter_byte ==
    /\ pk_pc = "set_checksum"
    /\ \E b \in 0..255 :
          \/ b # pk.vrid /\ pk' = [pk EXCEPT !.vrid = b]
          \/ b # pk.priority /\ pk' = [pk EXCEPT !.priority = b]
          \/ \E k \in 1..Len(pk.ip_addresses) :
                \E o \in 1..Len(pk.ip_addresses[k].octets) :
                   /\ b # pk.ip_addresses[k].octets[o]
                   /\ pk' = [pk EXCEPT !.ip_addresses[k].octets[o] = b]
    /\ pk_sum' = "altered"
    /\ pk_pc' = "alter_byte"
    /\ UNCHANGED <<pk_ips, pk_bytes, pk_parsed, pk_valid, intervals, ipvsVars, inVars,
                   ntfVars,
                   notify_q, managerVars, pollVars, nlVars, vrrpVars>>

\* packet.verify_checksum(src_ip, dst_ip)
verify_checksum_call ==
    /\ pk_pc \in {"set_checksum", "alter_byte", "parse"}
    /\ pk_valid' = verify_checksum(pk, pk_ips[1], pk_ips[2])
    /\ pk_pc' = "verify_checksum"
    /\ UNCHANGED <<pk, pk_ips, pk_sum, pk_bytes, pk_parsed, intervals, ipvsVars, inVars,
                   ntfVars,
                   notify_q, managerVars, pollVars, nlVars, vrrpVars>>

\* packet.to_bytes()
to_bytes_call ==
    /\ pk_pc \in {"new", "set_checksum"}
    /\ pk_bytes' = to_bytes(pk)
    /\ pk_pc' = "to_bytes"
    /\ UNCHANGED <<pk, pk_ips, pk_sum, pk_parsed, pk_valid, intervals, ipvsVars, inVars,
                   ntfVars,
                   notify_q, managerVars, pollVars, nlVars, vrrpVars>>

\* VRRPPacket::parse(&bytes)
parse_call ==
    /\ pk_pc = "to_bytes"
    /\ pk_parsed' = parse(pk_bytes)
    /\ pk_pc' = "parse"
    /\ UNCHANGED <<pk, pk_ips, pk_sum, pk_bytes, pk_valid, intervals, ipvsVars, inVars,
                   ntfVars,
                   notify_q, managerVars, pollVars, nlVars, vrrpVars>>

NextPacket ==
    \/ set_checksum
    \/ alter_byte
    \/ verify_checksum_call
    \/ to_bytes_call
    \/ parse_call

\* A packet built, summed, serialised and parsed as the sender and the
\* receiver of an advertisement do, with nothing else of the node running
InitPacketAlone ==
    /\ InitPacket
    /\ produced = 0
    /\ batch_size = 1
    /\ ntf_pc = "select"
    /\ batch = <<>>
    /\ batch_age = 0
    /\ ticks_skipped = 0
    /\ last_batch_elapsed = 0
    /\ batch_timer = BatchDelay
    /\ to_proxy = <<>>
    /\ proxy_pc = "accept"
    /\ written = <<>>
    /\ InboundClosed
    /\ mon = <<>>
    /\ monitors = [i \in Ids |-> NoEntry]
    /\ config_rx = <<>>
    /\ updates_left = 0
    /\ mgr_pc = "recv"
    /\ mgr_cfgs = <<>>
    /\ new_ids = {}
    /\ api_calls = <<>>
    /\ monitor_count = 0
    /\ poll_len = 0
    /\ observed = [i \in Ids |-> 0]
    /\ NlaIdle
    /\ poll_pc = "tick"
    /\ poll_last = 0
    /\ poll_cur = NoSnapshot
    /\ snapshots = <<>>
    /\ notify_q = <<>>
    /\ checks_left = 0
    /\ VrrpIdle

SpecPacket == InitPacketAlone /\ [][NextPacket]_vars

C24_ChecksumDetects ==
    pk_pc = "verify_checksum" =>
        /\ pk_sum = "set" => pk_valid
        /\ pk_sum = "altered" => ~pk_valid

\* The last byte of the second IPv6 address of a packet was altered and the
\* checksum verified
C24_Witness ==
    /\ pk_pc = "verify_checksum"
    /\ pk_sum = "altered"
    /\ Len(pk.ip_addresses) = 2
    /\ pk.ip_addresses[2].fam = 6
    /\ pk.ip_addresses[2].octets[16] = 254
    /\ pk_ips[1].fam = 6
    /\ ~pk_valid

\* The VRRPConfig values the timer functions are applied to: every
\* priority of a router that is not shutting down, and advertisement
\* intervals from the smallest to the largest u16
TimerConfigs ==
    [vrid : {1}, priority : 1..255, advert_interval : {1, 100, 4095, 65535},
     preempt : {TRUE}]

\* config.master_down_interval() and config.advert_interval_ms()
timer_calls ==
    /\ pk_pc = "idle"
    /\ intervals' = [master_down |-> master_down_interval(config),
                     advert |-> advert_interval_ms(config)]
    /\ pk_pc' = "intervals"
    /\ UNCHANGED <<pk, pk_ips, pk_sum, pk_bytes, pk_parsed, pk_valid, ipvsVars, inVars,
                   ntfVars,
                   notify_q, managerVars, pollVars, nlVars, vrrpVars>>

NextTimers == timer_calls

\* A configuration whose timer values are computed, with no task running
InitTimers ==
    /\ config \in TimerConfigs
    /\ state = "Init"
    /\ stats = VRRPStatsDefault
    /\ pc = "start"
    /\ ret = "none"
    /\ deadline = NoTime
    /\ deadline_arg = NoTime
    /\ packet = NoPacket
    /\ advert_timer = NoTime
    /\ sleep_until = NoTime
    /\ spc = "idle"
    /\ now = 0
    /\ delivered = 0
    /\ peer = FALSE
    /\ PureIdle
    /\ produced = 0
    /\ batch_size = 1
    /\ ntf_pc = "select"
    /\ batch = <<>>
    /\ batch_age = 0
    /\ ticks_skipped = 0
    /\ last_batch_elapsed = 0
    /\ batch_timer = BatchDelay
    /\ to_proxy = <<>>
    /\ proxy_pc = "accept"
    /\ written = <<>>
    /\ InboundClosed
    /\ mon = <<>>
    /\ monitors = [i \in Ids |-> NoEntry]
    /\ config_rx = <<>>
    /\ updates_left = 0
    /\ mgr_pc = "recv"
    /\ mgr_cfgs = <<>>
    /\ new_ids = {}
    /\ api_calls = <<>>
    /\ monitor_count = 0
    /\ poll_len = 0
    /\ observed = [i \in Ids |-> 0]
    /\ NlaIdle
    /\ poll_pc = "tick"
    /\ poll_last = 0
    /\ poll_cur = NoSnapshot
    /\ snapshots = <<>>
    /\ notify_q = <<>>
    /\ checks_left = 0

SpecTimers == InitTimers /\ [][NextTimers]_vars

\* C25: with a the advertisement interval in centiseconds, advert_interval_ms
\* is 10a ms and master_down_interval is three times that plus the skew, the
\* largest whole number of ms s with 256 s <= (256 - priority) * 10a; that is
\* 3609 ms for priority 100 and a = 100.
C25_MasterDownInterval ==
    pk_pc = "intervals" =>
        LET a == config.advert_interval
            s == intervals.master_down - 3 * (10 * a)
        IN  /\ intervals.advert = 10 * a
            /\ s >= 0
            /\ 256 * s <= (256 - config.priority) * (10 * a)
            /\ (256 - config.priority) * (10 * a) < 256 * (s + 1)
            /\ (config.priority = 100 /\ a = 100) => intervals.master_down = 3609

\* The timers of a router of priority 100 advertising every second
C25_Witness ==
    /\ pk_pc = "intervals"
    /\ config.priority = 100
    /\ config.advert_interval = 100
    /\ intervals = [master_down |-> 3609, advert |-> 1000]

----------------------------------------------------------------------------
\* The IPVS driver (ipvs/src/lib.rs)

\* Valid Service and Destination values: an IPv4 virtual service and a real
\* server behind it
Services ==
    [address : {Ipv4Addr(10, 0, 0, 1)}, protocol : {"TCP", "UDP"}, port : {80, 443},
     fwmark : {0}, scheduler : {"rr", "wrr"}]

Destinations ==
    [address : {Ipv4Addr(192, 168, 1, 10)}, port : {8080}, weight : {1, 100},
     flags : {"Route", "Masq"}]

\* Result<()> of an operation of the driver
Ok == [ok |-> TRUE]
Err(msg) == [ok |-> FALSE, err |-> msg]

\* IPVSManager::flush
IPVSManager_flush == Err("Not yet implemented")
\* IPVSManager::add_service
IPVSManager_add_service(service) == Err("Not yet implemented")
\* IPVSManager::delete_service
IPVSManager_delete_service(service) == Err("Not yet implemented")
\* IPVSManager::add_destination
IPVSManager_add_destination(service, dest) == Err("Not yet implemented")
\* IPVSManager::delete_destination
IPVSManager_delete_destination(service, dest) == Err("Not yet implemented")

\* The caller's record of one operation
called(op, result) ==
    /\ ipvs_calls' = Append(ipvs_calls, [op |-> op, result |-> result])
    /\ UNCHANGED <<ipvs_args, pk, pk_ips, pk_sum, pk_bytes, pk_parsed, pk_valid, pk_pc,
                   intervals, inVars, ntfVars, notify_q, managerVars, pollVars, nlVars, vrrpVars>>

\* manager.flush()
ipvs_flush ==
    /\ Len(ipvs_calls) = 0
    /\ called("flush", IPVSManager_flush)

\* manager.add_service(&service)
ipvs_add_service ==
    /\ Len(ipvs_calls) = 1
    /\ called("add_service", IPVSManager_add_service(ipvs_args[1]))

\* manager.add_destination(&service, &dest)
ipvs_add_destination ==
    /\ Len(ipvs_calls) = 2
    /\ called("add_destination", IPVSManager_add_destination(ipvs_args[1], ipvs_args[2]))

\* manager.delete_destination(&service, &dest)
ipvs_delete_destination ==
    /\ Len(ipvs_calls) = 3
    /\ called("delete_destination",
              IPVSManager_delete_destination(ipvs_args[1], ipvs_args[2]))

\* manager.delete_service(&service)
ipvs_delete_service ==
    /\ Len(ipvs_calls) = 4
    /\ called("delete_service", IPVSManager_delete_service(ipvs_args[1]))

NextIpvs ==
    \/ ipvs_flush
    \/ ipvs_add_service
    \/ ipvs_add_destination
    \/ ipvs_delete_destination
    \/ ipvs_delete_service

\* An IPVSManager and a caller with a Service and a Destination, nothing
\* else of the node running
InitIpvs ==
    /\ ipvs_args \in Services \X Destinations
    /\ ipvs_calls = <<>>
    /\ pk = NoPacket
    /\ pk_ips = <<>>
    /\ pk_sum = "unset"
    /\ pk_bytes = <<>>
    /\ pk_parsed = [ok |-> FALSE, err |-> "none"]
    /\ pk_valid = FALSE
    /\ pk_pc = "idle"
    /\ intervals = [master_down |-> 0, advert |-> 0]
    /\ produced = 0
    /\ batch_size = 1
    /\ ntf_pc = "select"
    /\ batch = <<>>
    /\ batch_age = 0
    /\ ticks_skipped = 0
    /\ last_batch_elapsed = 0
    /\ batch_timer = BatchDelay
    /\ to_proxy = <<>>
    /\ proxy_pc = "accept"
    /\ written = <<>>
    /\ InboundClosed
    /\ mon = <<>>
    /\ monitors = [i \in Ids |-> NoEntry]
    /\ config_rx = <<>>
    /\ updates_left = 0
    /\ mgr_pc = "recv"
    /\ mgr_cfgs = <<>>
    /\ new_ids = {}
    /\ api_calls = <<>>
    /\ monitor_count = 0
    /\ poll_len = 0
    /\ observed = [i \in Ids |-> 0]
    /\ NlaIdle
    /\ poll_pc = "tick"
    /\ poll_last = 0
    /\ poll_cur = NoSnapshot
    /\ snapshots = <<>>
    /\ notify_q = <<>>
    /\ checks_left = 0
    /\ VrrpIdle

SpecIpvs == InitIpvs /\ [][NextIpvs]_vars

\* C26: flush, add_service(S), add_destination(S, D), delete_destination(S, D)
\* and delete_service(S), called in this order with a valid S and D, each
\* return success.
C26_LifecycleSucceeds ==
    \A k \in 1..Len(ipvs_calls) : ipvs_calls[k].result.ok

\* C27: in the Backup loop an accepted advertisement with a priority that is
\* not zero and lower than the node's own re-arms the Master_Down deadline of
\* run_backup to now + Master_Down_Interval when preempt is false, and leaves
\* it as it is when preempt is true.
C27_LowerPriorityInBackup ==
    [][(pc = "bk_handle" /\ pc' # pc /\ Accepted(packet)
          /\ packet.priority > 0 /\ packet.priority < config.priority)
         => IF config.preempt
              THEN deadline' = deadline
              ELSE deadline' = now + master_down_interval(config)]_vars

\* C28: a step in which the socket send of an advertisement fails (the node
\* is at one of the two calls of send_advertisement and adverts_sent does not
\* grow) does not make run() return and leaves the state of the node as it
\* is; run() never returns because of an error.
C28_SendFailureSurvived ==
    /\ [][(pc \in {"tm_send", "ms_send"} /\ pc' # pc
             /\ stats'.adverts_sent = stats.adverts_sent)
            => (pc' # "returned_err" /\ state' = state)]_vars
    /\ [](pc # "returned_err")

\* The step takes a datagram that does not parse from the socket
DropsMalformed ==
    /\ delivered' = delivered + 1
    /\ \/ pc = "bk_recv" /\ pc' = "bk_deadline"
       \/ pc = "ms_select" /\ pc' = "ms_select"

\* The step is the handler's refusal of an advertisement for the node's VRID
\* whose checksum does not verify
DropsBadChecksum ==
    /\ pc \in {"bk_handle", "ms_handle"}
    /\ pc' # pc
    /\ packet.vrid = config.vrid
    /\ ~packet.cksum_ok

\* C29: a received packet that does not parse, or whose checksum does not
\* verify, is dropped: the step leaves the state of the node, the Master_Down
\* deadline and the advertisement timer as they are, and adds one to
\* invalid_adverts.
C29_InvalidDroppedAndCounted ==
    [][(DropsMalformed \/ DropsBadChecksum)
         => /\ state' = state
            /\ deadline' = deadline
            /\ advert_timer' = advert_timer
            /\ stats'.invalid_adverts = stats.invalid_adverts + 1]_vars

\* C30: while the node handles an advertisement that arrived with a TTL (hop
\* limit) below 255, no step of run() changes the state of the node or the
\* Master_Down deadline, and adverts_received does not grow.
C30_LowTtlIgnored ==
    [][(packet.kind = "advert" /\ packet.ttl < 255 /\ pc' # pc)
         => /\ state' = state
            /\ deadline' = deadline
            /\ stats'.adverts_received = stats.adverts_received]_vars

\* C31: the send of transition_to_master adds exactly one to adverts_sent,
\* and every later advertisement waits for a full Advertisement_Interval: at
\* any moment the node has sent at most one advertisement per transition to
\* Master and one per Advertisement_Interval that has elapsed.
C31_OneAdvertPerTransition ==
    /\ [][(pc = "tm_send" /\ pc' = "loop")
            => stats'.adverts_sent = stats.adverts_sent + 1]_vars
    /\ [](stats.adverts_sent
            <= stats.master_transitions + (now \div advert_interval_ms(config)))

\* The live probing tasks of the monitors built for an id (every id has an
\* address of its own, so the target of a monitor tells its id)
LiveTasksOfId(i) ==
    {<<o, t>> \in (1..Len(mon)) \X (1..MaxUpdates) :
        /\ t \in LiveTasks(o)
        /\ \E l \in ConfigLists : \E k \in 1..Len(l) :
              l[k].id = i /\ l[k].ip = mon[o].config.target[1]}

\* C32: the step of update_configs that rebuilds the monitor of an id leaves
\* no live probing task of the monitor it replaces, and at every moment an id
\* has at most one live probing task.
C32_RebuildStopsOldTask ==
    /\ [][\A i \in Ids :
            (monitors[i].present /\ monitors'[i].present
               /\ monitors'[i].monitor # monitors[i].monitor)
            => LiveTasks(monitors[i].monitor)' = {}]_vars
    /\ [](\A i \in Ids : Cardinality(LiveTasksOfId(i)) <= 1)

\* C33: the round of update_configs that meets an entry whose stored config
\* equals the config of the update leaves the map, every monitor (its task,
\* statistics and state) and the notification queue as they were, and the
\* retain pass of the update leaves every entry named by the update as it was.
C33_UnchangedSpecUntouched ==
    /\ [][(mgr_pc = "apply" /\ mgr_cfgs # <<>> /\ mgr_cfgs' = Tail(mgr_cfgs)
             /\ monitors[Head(mgr_cfgs).id].present
             /\ monitors[Head(mgr_cfgs).id].config = Head(mgr_cfgs))
           => (monitors' = monitors /\ mon' = mon /\ notify_q' = notify_q)]_vars
    /\ [][(mgr_pc = "retain" /\ mgr_pc' = "count_removed")
           => (\A i \in new_ids : monitors'[i] = monitors[i])
              /\ mon' = mon /\ notify_q' = notify_q]_vars

\* An update has passed over the entry of id 1, whose config it repeats, after
\* the monitor of that entry had run checks, and goes on to add id 2
C33_Witness ==
    /\ mgr_pc = "apply"
    /\ new_ids = {1, 2}
    /\ mgr_cfgs = <<HealthcheckConfig(2, 1, "10.0.0.2")>>
    /\ monitors[1].present
    /\ monitors[1].config = HealthcheckConfig(1, 0, "10.0.0.1")
    /\ Len(mon) = 1
    /\ mon[1].stats.total_checks > 0

\* C34: whenever the manager is between two reconciliations (waiting on
\* config_rx), the active-monitor-count gauge equals the number of entries of
\* the map, whatever the poller has done with the gauge in between.
C34_GaugeMatchesMap ==
    [](mgr_pc = "recv" => monitor_count = Cardinality(PresentIds))

\* C35: when the poller has handled the snapshot of a monitor, the check
\* observations it has recorded for that monitor so far number the
\* total_checks of the snapshot.
C35_ObservationsMatchTotal ==
    [][(poll_pc = "process" /\ snapshots # <<>>
          /\ (poll_pc' = "send" \/ snapshots' = Tail(snapshots)))
        => observed'[Head(snapshots).id] = Head(snapshots).stats.total_checks]_vars

\* A step of a queue that loses nothing: it stays as it is, gives up its head
\* to the consumer, or takes one more item at its tail
QueueStep(q, r) ==
    \/ r = q
    \/ q # <<>> /\ r = Tail(q)
    \/ Len(r) = Len(q) + 1 /\ SubSeq(r, 1, Len(q)) = q

\* C36: the notification queue never holds more than channels.notification
\* items, the config-update queue never more than channels.config_update and
\* the proxy-outbound queue never more than channels.proxy_message, and no
\* step of any of them drops an item.
C36_QueuesWithinCapacity ==
    /\ [](/\ Len(notify_q) <= channels.notification
          /\ Len(config_rx) <= channels.config_update
          /\ Len(to_proxy) <= channels.proxy_message)
    /\ [][/\ QueueStep(notify_q, notify_q')
          /\ QueueStep(config_rx, config_rx')
          /\ QueueStep(to_proxy, to_proxy')]_vars

----------------------------------------------------------------------------
\* The IPVS netlink attributes (ipvs/src/messages.rs)

\* The byte orders a build of the crate can have as its host order
Hosts == {"little", "big"}

Reverse(s) == [i \in 1..Len(s) |-> s[Len(s) + 1 - i]]

\* u32::from(Ipv4Addr): the octets read as one big-endian number
u32_from(ip) ==
    ((ip.octets[1] * 256 + ip.octets[2]) * 256 + ip.octets[3]) * 256 + ip.octets[4]

\* u32::to_be_bytes and u32::from_be_bytes
u32_to_be_bytes(v) ==
    <<v \div 16777216, (v \div 65536) % 256, (v \div 256) % 256, v % 256>>
u32_from_be_bytes(b) == ((b[1] * 256 + b[2]) * 256 + b[3]) * 256 + b[4]

\* u16::to_be and u32::to_be: the value itself on a big-endian host, its bytes
\* swapped on a little-endian one
u16_to_be(host, v) ==
    IF host = "big" THEN v ELSE from_be_bytes(to_be_bytes(v)[2], to_be_bytes(v)[1])
u32_to_be(host, v) ==
    IF host = "big" THEN v ELSE u32_from_be_bytes(Reverse(u32_to_be_bytes(v)))

\* u16::to_ne_bytes and u32::to_ne_bytes
u16_to_ne_bytes(host, v) ==
    IF host = "big" THEN to_be_bytes(v) ELSE Reverse(to_be_bytes(v))
u32_to_ne_bytes(host, v) ==
    IF host = "big" THEN u32_to_be_bytes(v) ELSE Reverse(u32_to_be_bytes(v))

\* netlink_packet_utils::parsers::parse_u16: a native-endian u16 out of a
\* payload of two bytes
parse_u16(host, payload) ==
    IF Len(payload) # 2
      THEN Err("invalid u16")
      ELSE [ok |-> TRUE,
            v |-> IF host = "big" THEN from_be_bytes(payload[1], payload[2])
                                  ELSE from_be_bytes(payload[2], payload[1])]

\* The variants of ServiceNla: the integers and the bytes a variant carries
ServiceNla_AddressFamily(v) == [nla |-> "AddressFamily", words |-> <<v>>, bytes |-> <<>>]
ServiceNla_Protocol(v) == [nla |-> "Protocol", words |-> <<v>>, bytes |-> <<>>]
ServiceNla_Address(v) == [nla |-> "Address", words |-> <<v>>, bytes |-> <<>>]
ServiceNla_Port(v) == [nla |-> "Port", words |-> <<v>>, bytes |-> <<>>]
ServiceNla_FirewallMark(v) == [nla |-> "FirewallMark", words |-> <<v>>, bytes |-> <<>>]
ServiceNla_Scheduler(name) == [nla |-> "Scheduler", words |-> <<>>, bytes |-> name]
ServiceNla_Flags(flags, mask) == [nla |-> "Flags", words |-> <<flags, mask>>, bytes |-> <<>>]
ServiceNla_Timeout(v) == [nla |-> "Timeout", words |-> <<v>>, bytes |-> <<>>]
ServiceNla_Other(kind, payload) == [nla |-> "Other", words |-> <<kind>>, bytes |-> payload]

\* The variants of DestNla
DestNla_Address(v) == [nla |-> "Address", words |-> <<v>>, bytes |-> <<>>]
DestNla_Port(v) == [nla |-> "Port", words |-> <<v>>, bytes |-> <<>>]
DestNla_ForwardingMethod(v) == [nla |-> "ForwardingMethod", words |-> <<v>>, bytes |-> <<>>]
DestNla_Weight(v) == [nla |-> "Weight", words |-> <<v>>, bytes |-> <<>>]
DestNla_UpperThreshold(v) == [nla |-> "UpperThreshold", words |-> <<v>>, bytes |-> <<>>]
DestNla_LowerThreshold(v) == [nla |-> "LowerThreshold", words |-> <<v>>, bytes |-> <<>>]

\* impl Nla for ServiceNla: kind (the values of IPVSServiceAttr)
ServiceNla_kind(n) ==
    CASE n.nla = "AddressFamily" -> 1
      [] n.nla = "Protocol" -> 2
      [] n.nla = "Address" -> 3
      [] n.nla = "Port" -> 4
      [] n.nla = "FirewallMark" -> 5
      [] n.nla = "Scheduler" -> 6
      [] n.nla = "Flags" -> 7
      [] n.nla = "Timeout" -> 8
      [] n.nla = "Other" -> n.words[1]

\* impl Nla for ServiceNla: emit_value
ServiceNla_emit_value(host, n) ==
    CASE n.nla = "AddressFamily" -> u16_to_ne_bytes(host, n.words[1])
      [] n.nla = "Protocol" -> u16_to_ne_bytes(host, n.words[1])
      [] n.nla = "Address" -> u32_to_be_bytes(n.words[1])
      [] n.nla = "Port" -> to_be_bytes(n.words[1])
      [] n.nla = "FirewallMark" -> u32_to_ne_bytes(host, n.words[1])
      [] n.nla = "Scheduler" -> n.bytes \o <<0>>
      [] n.nla = "Flags" ->
            u32_to_ne_bytes(host, n.words[1]) \o u32_to_ne_bytes(host, n.words[2])
      [] n.nla = "Timeout" -> u32_to_ne_bytes(host, n.words[1])
      [] n.nla = "Other" -> n.bytes

\* impl Nla for DestNla: kind and emit_value
DestNla_kind(n) ==
    CASE n.nla = "Address" -> 1
      [] n.nla = "Port" -> 2
      [] n.nla = "ForwardingMethod" -> 3
      [] n.nla = "Weight" -> 4
      [] n.nla = "UpperThreshold" -> 5
      [] n.nla = "LowerThreshold" -> 6

DestNla_emit_value(host, n) ==
    CASE n.nla = "Address" -> u32_to_be_bytes(n.words[1])
      [] n.nla = "Port" -> to_be_bytes(n.words[1])
      [] OTHER -> u32_to_ne_bytes(host, n.words[1])

\* str::trim_end_matches('\0')
RECURSIVE trim_end_matches_nul(_)
trim_end_matches_nul(b) ==
    IF b # <<>> /\ b[Len(b)] = 0
      THEN trim_end_matches_nul(SubSeq(b, 1, Len(b) - 1))
      ELSE b

\* impl Parseable for ServiceNla: parse of an attribute of this kind and payload
ServiceNla_parse(host, kind, payload) ==
    CASE kind = 1 ->
            IF parse_u16(host, payload).ok
              THEN [ok |-> TRUE, nla |-> ServiceNla_AddressFamily(parse_u16(host, payload).v)]
              ELSE Err("Invalid address family")
      [] kind = 2 ->
            IF parse_u16(host, payload).ok
              THEN [ok |-> TRUE, nla |-> ServiceNla_Protocol(parse_u16(host, payload).v)]
              ELSE Err("Invalid protocol")
      [] kind = 3 ->
            IF Len(payload) = 4
              THEN [ok |-> TRUE, nla |-> ServiceNla_Address(u32_from_be_bytes(payload))]
              ELSE Err("Invalid address")
      [] kind = 4 ->
            IF Len(payload) = 2
              THEN [ok |-> TRUE,
                    nla |-> ServiceNla_Port(from_be_bytes(payload[1], payload[2]))]
              ELSE Err("Invalid port")
      [] kind = 6 ->
            [ok |-> TRUE, nla |-> ServiceNla_Scheduler(trim_end_matches_nul(payload))]
      [] OTHER -> [ok |-> TRUE, nla |-> ServiceNla_Other(kind, payload)]

\* impl fmt::Display for Scheduler: the bytes of the name
Scheduler_fmt(scheduler) ==
    CASE scheduler = "RoundRobin" -> <<114, 114>>
      [] scheduler = "WeightedRoundRobin" -> <<119, 114, 114>>

\* Service::to_service_nlas
to_service_nlas(host, service) ==
    LET af == 2
        addr_bytes == IF service.address.fam = 4
                        THEN u32_to_be(host, u32_from(service.address))
                        ELSE 0
        proto == CASE service.protocol = "TCP" -> 6
                   [] service.protocol = "UDP" -> 17
    IN <<ServiceNla_AddressFamily(af), ServiceNla_Protocol(proto)>>
       \o (IF service.fwmark = 0
             THEN <<ServiceNla_Address(addr_bytes),
                    ServiceNla_Port(u16_to_be(host, service.port))>>
             ELSE <<ServiceNla_FirewallMark(service.fwmark)>>)
       \o <<ServiceNla_Scheduler(Scheduler_fmt(service.scheduler)),
            ServiceNla_Flags(service.flags, service.flags)>>
       \o (IF service.timeout > 0 THEN <<ServiceNla_Timeout(service.timeout)>> ELSE <<>>)

\* Destination::to_dest_nlas
to_dest_nlas(host, dest) ==
    LET addr_bytes == IF dest.address.fam = 4
                        THEN u32_to_be(host, u32_from(dest.address))
                        ELSE 0
        fwd_method == CASE dest.flags = "Masq" -> 0
                        [] dest.flags = "Route" -> 3
    IN <<DestNla_Address(addr_bytes),
         DestNla_Port(u16_to_be(host, dest.port)),
         DestNla_Weight(dest.weight),
         DestNla_ForwardingMethod(fwd_method),
         DestNla_UpperThreshold(dest.upper_threshold),
         DestNla_LowerThreshold(dest.lower_threshold)>>

\* The Service and Destination values the attribute code is given
NlaServices ==
    [address : {Ipv4Addr(10, 0, 0, 1), Ipv4Addr(10, 1, 2, 3), Ipv6Addr(32, 1)},
     protocol : {"TCP", "UDP"}, port : {80, 443, 257},
     fwmark : {0, 7}, scheduler : {"RoundRobin", "WeightedRoundRobin"},
     flags : {0, 1}, timeout : {0, 30}]

NlaDestinations ==
    [address : {Ipv4Addr(10, 0, 1, 20), Ipv6Addr(32, 2)}, port : {8080, 0},
     weight : {1}, flags : {"Route", "Masq"}, lower_threshold : {0},
     upper_threshold : {0, 100}]

\* Whatever else the node holds is left alone by the attribute code
nla_frame ==
    UNCHANGED <<nl_host, nl_service, nl_dest, pollVars, pureVars, inVars, ntfVars,
                notify_q, managerVars, vrrpVars>>

\* service.to_service_nlas()
to_service_nlas_call ==
    /\ nl_pc = "new"
    /\ nl_nlas' = to_service_nlas(nl_host, nl_service)
    /\ nl_pc' = "service_nlas"
    /\ UNCHANGED <<nl_dest_nlas, nl_bytes, nl_dest_bytes, nl_parsed>>
    /\ nla_frame

\* dest.to_dest_nlas()
to_dest_nlas_call ==
    /\ nl_pc = "service_nlas"
    /\ nl_dest_nlas' = to_dest_nlas(nl_host, nl_dest)
    /\ nl_pc' = "dest_nlas"
    /\ UNCHANGED <<nl_nlas, nl_bytes, nl_dest_bytes, nl_parsed>>
    /\ nla_frame

\* nla.emit(..) of every attribute: its kind and its emit_value in the buffer
emit_call ==
    /\ nl_pc = "dest_nlas"
    /\ nl_bytes' = [i \in 1..Len(nl_nlas) |->
                      [kind |-> ServiceNla_kind(nl_nlas[i]),
                       value |-> ServiceNla_emit_value(nl_host, nl_nlas[i])]]
    /\ nl_dest_bytes' = [i \in 1..Len(nl_dest_nlas) |->
                      [kind |-> DestNla_kind(nl_dest_nlas[i]),
                       value |-> DestNla_emit_value(nl_host, nl_dest_nlas[i])]]
    /\ nl_pc' = "emitted"
    /\ UNCHANGED <<nl_nlas, nl_dest_nlas, nl_parsed>>
    /\ nla_frame

\* ServiceNla::parse(&NlaBuffer) of every emitted service attribute
nla_parse_call ==
    /\ nl_pc = "emitted"
    /\ nl_parsed' = [i \in 1..Len(nl_bytes) |->
                       ServiceNla_parse(nl_host, nl_bytes[i].kind, nl_bytes[i].value)]
    /\ nl_pc' = "parsed"
    /\ UNCHANGED <<nl_nlas, nl_dest_nlas, nl_bytes, nl_dest_bytes>>
    /\ nla_frame

NextNla ==
    \/ to_service_nlas_call
    \/ to_dest_nlas_call
    \/ emit_call
    \/ nla_parse_call

\* A Service and a Destination handed to the attribute code on a host of
\* either byte order, nothing else of the node running
InitNla ==
    /\ nl_host \in Hosts
    /\ nl_service \in NlaServices
    /\ nl_dest \in NlaDestinations
    /\ nl_nlas = <<>>
    /\ nl_dest_nlas = <<>>
    /\ nl_bytes = <<>>
    /\ nl_dest_bytes = <<>>
    /\ nl_parsed = <<>>
    /\ nl_pc = "new"
    /\ ipvs_args = <<>>
    /\ ipvs_calls = <<>>
    /\ pk = NoPacket
    /\ pk_ips = <<>>
    /\ pk_sum = "unset"
    /\ pk_bytes = <<>>
    /\ pk_parsed = [ok |-> FALSE, err |-> "none"]
    /\ pk_valid = FALSE
    /\ pk_pc = "idle"
    /\ intervals = [master_down |-> 0, advert |-> 0]
    /\ produced = 0
    /\ batch_size = 1
    /\ ntf_pc = "select"
    /\ batch = <<>>
    /\ batch_age = 0
    /\ ticks_skipped = 0
    /\ last_batch_elapsed = 0
    /\ batch_timer = BatchDelay
    /\ to_proxy = <<>>
    /\ proxy_pc = "accept"
    /\ written = <<>>
    /\ InboundClosed
    /\ mon = <<>>
    /\ monitors = [i \in Ids |-> NoEntry]
    /\ config_rx = <<>>
    /\ updates_left = 0
    /\ mgr_pc = "recv"
    /\ mgr_cfgs = <<>>
    /\ new_ids = {}
    /\ api_calls = <<>>
    /\ monitor_count = 0
    /\ poll_len = 0
    /\ observed = [i \in Ids |-> 0]
    /\ poll_pc = "tick"
    /\ poll_last = 0
    /\ poll_cur = NoSnapshot
    /\ snapshots = <<>>
    /\ notify_q = <<>>
    /\ checks_left = 0
    /\ VrrpIdle

SpecNla == InitNla /\ [][NextNla]_vars

\* C37: on a host of either byte order, the bytes emitted for the Port
\* attribute of a Service or Destination of port p are p div 256 and
\* p mod 256, and the bytes emitted for the Address attribute of an IPv4
\* address are its octets in network order.
C37_NetworkByteOrder ==
    nl_pc \in {"emitted", "parsed"} =>
        /\ \A i \in 1..Len(nl_bytes) :
              /\ nl_nlas[i].nla = "Port" =>
                    nl_bytes[i].value = <<nl_service.port \div 256, nl_service.port % 256>>
              /\ (nl_nlas[i].nla = "Address" /\ nl_service.address.fam = 4) =>
                    nl_bytes[i].value = nl_service.address.octets
        /\ \A i \in 1..Len(nl_dest_bytes) :
              /\ nl_dest_nlas[i].nla = "Port" =>
                    nl_dest_bytes[i].value = <<nl_dest.port \div 256, nl_dest.port % 256>>
              /\ (nl_dest_nlas[i].nla = "Address" /\ nl_dest.address.fam = 4) =>
                    nl_dest_bytes[i].value = nl_dest.address.octets

\* C38: parsing the bytes emitted for each attribute to_service_nlas produces
\* succeeds and yields an attribute equal to the emitted one.
C38_AttributeRoundTrip ==
    nl_pc = "parsed" =>
        \A i \in 1..Len(nl_nlas) :
            nl_parsed[i].ok /\ nl_parsed[i].nla = nl_nlas[i]

----------------------------------------------------------------------------
\* The whole health-check server (HealthcheckServer::run): the proxy task, the
\* message handler, the manager, the poller, the probing tasks and the
\* notifier, with a control agent on the socket

\* What the control agent sends, line by line
ServerScripts ==
    { <<"update_configs:a", "update_configs:b">>,
      <<"update_configs:a", "shutdown", "update_configs:b">> }

RECURSIVE Lines(_)
Lines(script) ==
    IF script = <<>> THEN <<>> ELSE Line(Head(script)) \o Lines(Tail(script))

\* The agent keeps its connection open after two updates, or closes it after
\* an update that follows its Shutdown
ServerTexts ==
    {Lines(script) \o (IF Len(script) = 3 THEN <<"EOF">> ELSE <<>>) :
        script \in ServerScripts}

\* Server::run: the channels empty, every task at its start, the notifier
\* flushing every notification as a batch of its own; the control agent has
\* connected and written its lines, which wait in the socket
InitServer ==
    /\ produced = 0
    /\ batch_size = 1
    /\ ntf_pc = "select"
    /\ batch = <<>>
    /\ batch_age = 0
    /\ ticks_skipped = 0
    /\ last_batch_elapsed = 0
    /\ batch_timer = BatchDelay
    /\ to_proxy = <<>>
    /\ proxy_pc = "accept"
    /\ written = <<>>
    /\ agent_out = <<>>
    /\ sock_in \in ServerTexts
    /\ agent_sent = sock_in
    /\ line = <<>>
    /\ proxy_msg = NoMsg
    /\ from_proxy = <<>>
    /\ hpm_pc = "recv"
    /\ hpm_msg = NoMsg
    /\ forwarded = <<>>
    /\ PureIdle
    /\ mon = <<>>
    /\ monitors = [i \in Ids |-> NoEntry]
    /\ config_rx = <<>>
    /\ updates_left = 0
    /\ mgr_pc = "recv"
    /\ mgr_cfgs = <<>>
    /\ new_ids = {}
    /\ api_calls = <<>>
    /\ monitor_count = 0
    /\ poll_len = 0
    /\ observed = [i \in Ids |-> 0]
    /\ NlaIdle
    /\ poll_pc = "tick"
    /\ poll_last = 0
    /\ poll_cur = NoSnapshot
    /\ snapshots = <<>>
    /\ notify_q = <<>>
    /\ checks_left = ServerChecks
    /\ VrrpIdle

NextServer ==
    \/ proxy_accept
    \/ proxy_read
    \/ proxy_forward
    \/ proxy_write
    \/ proxy_disconnect
    \/ handle_proxy_messages_recv
    \/ handle_proxy_messages_send
    \/ Manager_run
    \/ update_configs_retain
    \/ update_configs_count_removed
    \/ update_configs_apply
    \/ update_configs_count_added
    \/ \E o \in 1..Len(mon) : \E t \in 1..Len(mon[o].tasks) : \E status \in Statuses :
          process_result_stats(o, t, status)
    \/ \E o \in 1..Len(mon) : \E t \in 1..Len(mon[o].tasks) : process_result_is_up(o, t)
    \/ monitor_task_tick
    \/ monitor_task_update_monitor_count
    \/ monitor_task_iter
    \/ monitor_task_is_healthy
    \/ monitor_task_get_stats
    \/ monitor_task_process
    \/ monitor_task_send
    \/ Notifier_recv
    \/ Notifier_send_batch

SpecServer == InitServer /\ [][NextServer]_vars

\* The part of the monitor map a configuration message sets: which ids have an
\* entry, and the config and the monitor of each
Configured ==
    [i \in Ids |-> IF monitors[i].present
                     THEN [present |-> TRUE, config |-> monitors[i].config,
                           monitor |-> monitors[i].monitor]
                     ELSE [present |-> FALSE]]

\* The messages the handler has taken from its queue, and whether Shutdown
\* is among them
Received == SubSeq(forwarded, 1, Len(forwarded) - Len(from_proxy))

ShutdownReceived == \E k \in 1..Len(Received) : Received[k].type = "shutdown"

\* C39: once the message handler has taken Shutdown from its queue, nothing
\* more enters the manager's queue, and once what was queued before has been
\* applied, the entries of the monitor map stay as they are whatever
\* UpdateConfigs follows on the connection.
C39_NothingAppliedAfterShutdown ==
    /\ [][ShutdownReceived => Len(config_rx') <= Len(config_rx)]_vars
    /\ [][(ShutdownReceived /\ config_rx = <<>> /\ mgr_pc = "recv")
            => (Configured' = Configured /\ mgr_pc' = "recv")]_vars

\* The handler has taken Shutdown, the proxy task has read the UpdateConfigs
\* that followed it, and the map holds what the update before Shutdown set
C39_Witness ==
    /\ ShutdownReceived
    /\ Len(sock_in) <= 1
    /\ line = <<>>
    /\ proxy_pc # "send"
    /\ mgr_pc = "recv"
    /\ config_rx = <<>>
    /\ monitors[1].present
    /\ monitors[1].config = HealthcheckConfig(1, 0, "10.0.0.1")

\* Every task of the server is a tokio task, scheduled again whenever it can
\* run.  The manager gets the map lock it waits for: the poller holds its
\* iterator guard for a part of each poll interval only and sleeps for the rest.
ServerProxyTask ==
    proxy_accept \/ proxy_read \/ proxy_forward \/ proxy_write \/ proxy_disconnect

HandlerTask == handle_proxy_messages_recv \/ handle_proxy_messages_send

ServerNotifierTask == Notifier_recv \/ Notifier_send_batch

FairServer ==
    /\ WF_vars(ServerProxyTask)
    /\ WF_vars(HandlerTask)
    /\ WF_vars(ManagerTask)
    /\ SF_vars(update_configs_retain)
    /\ SF_vars(update_configs_apply)
    /\ WF_vars(PollerTask)
    /\ WF_vars(ServerNotifierTask)

SpecServerFair == SpecServer /\ FairServer

====
